---------------------------- MODULE Spec2Model ----------------------------
(***************************************************************************)
(* Fix-It AI: the triage orchestrator (backend/agent.py) and the /chat     *)
(* endpoint (backend/main.py) as state machines.                           *)
(*                                                                         *)
(* Python values are modelled as follows.                                  *)
(*   str            a sequence of one-character strings (Text)             *)
(*   None / null    the atom None, which is no Text                        *)
(*   dict           a function from key names to values                    *)
(*   list           a sequence                                             *)
(*   enum-like str  (action, risk, category, role, dict keys) a string     *)
(*                                                                         *)
(* The inference oracle (Gemini) is outside the program: every call to it  *)
(* is a nondeterministic choice among the outcomes it can produce.         *)
(***************************************************************************)
EXTENDS Integers, Sequences, FiniteSets, TLC

-----------------------------------------------------------------------------
(* Python text primitives                                                  *)

\* Python's None (and JSON null): an atom that is not a Text.
None == <<"None">>

\* {} : the empty dict.
EmptyDict == [k \in {} |-> None]

\* None standing where a dict is expected (a dict is a function on strings, and
\* so is this value, so that the two can be told apart by comparison).
NoneDict == [None |-> TRUE]

\* dict.get(key, default)
Get(d, key, default) == IF key \in DOMAIN d THEN d[key] ELSE default

\* bool(x) for x a str or None: None and "" are falsy.
Truthy(x) == x # None /\ x # <<>>

UPPERCASE ==
    <<"A","B","C","D","E","F","G","H","I","J","K","L","M",
      "N","O","P","Q","R","S","T","U","V","W","X","Y","Z">>
LOWERCASE ==
    <<"a","b","c","d","e","f","g","h","i","j","k","l","m",
      "n","o","p","q","r","s","t","u","v","w","x","y","z">>
DIGITS == {"0","1","2","3","4","5","6","7","8","9"}
Range(s) == {s[k] : k \in DOMAIN s}

\* str.lower() on one character (ASCII letters).
LOWER_OF ==
    [A |-> "a", B |-> "b", C |-> "c", D |-> "d", E |-> "e", F |-> "f", G |-> "g",
     H |-> "h", I |-> "i", J |-> "j", K |-> "k", L |-> "l", M |-> "m", N |-> "n",
     O |-> "o", P |-> "p", Q |-> "q", R |-> "r", S |-> "s", T |-> "t", U |-> "u",
     V |-> "v", W |-> "w", X |-> "x", Y |-> "y", Z |-> "z"]
LowerChar(c) == IF c \in DOMAIN LOWER_OF THEN LOWER_OF[c] ELSE c

\* str.lower()
Lower(t) == [k \in DOMAIN t |-> LowerChar(t[k])]

\* needle in text  (substring test)
Contains(text, needle) ==
    \E i \in 1..(Len(text) - Len(needle) + 1) :
        SubSeq(text, i, i + Len(needle) - 1) = needle

\* str.startswith / str.endswith
StartsWith(text, p) == Len(p) <= Len(text) /\ SubSeq(text, 1, Len(p)) = p
EndsWith(text, p) ==
    Len(p) <= Len(text) /\ SubSeq(text, Len(text) - Len(p) + 1, Len(text)) = p

\* Whitespace as str.strip() and the regex class \s see it.
WHITESPACE == {" ", "\t", "\n", "\r", "\f"}

\* str.strip()
RECURSIVE LStrip(_)
LStrip(t) == IF Len(t) > 0 /\ Head(t) \in WHITESPACE THEN LStrip(Tail(t)) ELSE t
RECURSIVE RStrip(_)
RStrip(t) ==
    IF Len(t) > 0 /\ t[Len(t)] \in WHITESPACE
    THEN RStrip(SubSeq(t, 1, Len(t) - 1))
    ELSE t
Strip(t) == RStrip(LStrip(t))

\* sep.join(parts)
RECURSIVE Join(_, _)
Join(sep, parts) ==
    IF Len(parts) = 0 THEN <<>>
    ELSE IF Len(parts) = 1 THEN parts[1]
    ELSE parts[1] \o sep \o Join(sep, Tail(parts))

-----------------------------------------------------------------------------
(* Regular expressions, with the backtracking order of Python's re: the    *)
(* result of matching a node at a position is the sequence of positions    *)
(* where the match can end, most preferred first.                          *)

ReSet(s) == [k |-> "set", s |-> s]
ReSeq(xs) == [k |-> "seq", xs |-> xs]
ReAlt(xs) == [k |-> "alt", xs |-> xs]
\* x{lo,hi}; hi = -1 is "no upper limit"; greedy or lazy.
ReRep(x, lo, hi, greedy) ==
    [k |-> "rep", x |-> x, lo |-> lo, hi |-> hi, greedy |-> greedy]
ReOpt(x) == ReRep(x, 0, 1, TRUE)
ReStar(x) == ReRep(x, 0, -1, TRUE)
RePlus(x) == ReRep(x, 1, -1, TRUE)
ReEnd == [k |-> "end"]
\* A literal; with re.IGNORECASE it matches whatever the case of the letters.
ReLit(t, ignorecase) == [k |-> "lit", s |-> t, ignorecase |-> ignorecase]

RECURSIVE ReEnds(_, _, _)
RECURSIVE ReEach(_, _, _)
RECURSIVE ReSeqEnds(_, _, _)
RECURSIVE ReAltEnds(_, _, _)
RECURSIVE ReRepEnds(_, _, _, _)
RECURSIVE ReRepEach(_, _, _, _)

\* The ends of node n matched at each start of `starts`, in order.
ReEach(n, t, starts) ==
    IF Len(starts) = 0 THEN <<>>
    ELSE ReEnds(n, t, Head(starts)) \o ReEach(n, t, Tail(starts))

ReSeqEnds(xs, t, starts) ==
    IF Len(xs) = 0 \/ Len(starts) = 0 THEN starts
    ELSE ReSeqEnds(Tail(xs), t, ReEach(Head(xs), t, starts))

ReAltEnds(xs, t, i) ==
    IF Len(xs) = 0 THEN <<>>
    ELSE ReEnds(Head(xs), t, i) \o ReAltEnds(Tail(xs), t, i)

ReRepEach(n, t, starts, c) ==
    IF Len(starts) = 0 THEN <<>>
    ELSE ReRepEnds(n, t, Head(starts), c) \o ReRepEach(n, t, Tail(starts), c)

\* c repetitions of n.x have been matched and the next one would start at i.
ReRepEnds(n, t, i, c) ==
    LET more == IF n.hi # -1 /\ c >= n.hi THEN <<>>
                ELSE ReRepEach(n, t, ReEnds(n.x, t, i), c + 1)
        stop == IF c >= n.lo THEN <<i>> ELSE <<>>
    IN  IF n.greedy THEN more \o stop ELSE stop \o more

ReEnds(n, t, i) ==
    CASE n.k = "set" -> IF i <= Len(t) /\ t[i] \in n.s THEN <<i + 1>> ELSE <<>>
      [] n.k = "lit" ->
            LET j == i + Len(n.s) - 1
            IN  IF j <= Len(t)
                   /\ IF n.ignorecase
                      THEN Lower(SubSeq(t, i, j)) = Lower(n.s)
                      ELSE SubSeq(t, i, j) = n.s
                THEN <<j + 1>> ELSE <<>>
      [] n.k = "any" -> IF i <= Len(t) /\ t[i] # "\n" THEN <<i + 1>> ELSE <<>>
      [] n.k = "end" -> \* $ without re.MULTILINE
                        IF i = Len(t) + 1 \/ (i = Len(t) /\ t[i] = "\n")
                        THEN <<i>> ELSE <<>>
      [] n.k = "seq" -> ReSeqEnds(n.xs, t, <<i>>)
      [] n.k = "alt" -> ReAltEnds(n.xs, t, i)
      [] n.k = "rep" -> ReRepEnds(n, t, i, 0)

\* The first of two results of matching that is a match (<<>> is "no match").
ReOrElse(m, rest) == IF Len(m) > 0 THEN m ELSE rest

\* Group 1 starts at g0 and ends at the first of `ends` after which `post`
\* matches: <<the text of group 1>>, or <<>>.
RECURSIVE ReFirstEnd(_, _, _, _)
ReFirstEnd(post, t, g0, ends) ==
    IF Len(ends) = 0 THEN <<>>
    ELSE IF Len(ReEnds(post, t, Head(ends))) > 0
    THEN <<SubSeq(t, g0, Head(ends) - 1)>>
    ELSE ReFirstEnd(post, t, g0, Tail(ends))

\* The pattern pre(grp)post with pre matched up to a start of `starts`: the
\* preferred match, as ReFirstEnd gives it.
RECURSIVE ReFirstGroup(_, _, _, _)
ReFirstGroup(grp, post, t, starts) ==
    IF Len(starts) = 0 THEN <<>>
    ELSE ReOrElse(ReFirstEnd(post, t, Head(starts), ReEnds(grp, t, Head(starts))),
                  ReFirstGroup(grp, post, t, Tail(starts)))

\* The match of pre(grp)post at the leftmost of `starts`, the positions of t
\* from which the pattern matches.
ReLeftmost(pre, grp, post, t, starts) ==
    IF starts = {} THEN <<>>
    ELSE ReFirstGroup(grp, post, t,
             ReEnds(pre, t, CHOOSE i \in starts : \A j \in starts : i <= j))

\* re.search(pre(grp)post, t): <<match.group(1)>>, or <<>> when the result is
\* None.
ReSearchGroup(pre, grp, post, t) ==
    ReLeftmost(pre, grp, post, t,
        {i \in 1..(Len(t) + 1) :
            Len(ReFirstGroup(grp, post, t, ReEnds(pre, t, i))) > 0})

ReNothing == ReSeq(<<>>)
\* \d, \s, \w and . as Python's re reads them on ASCII text
ReDigit == ReSet(DIGITS)
ReSpace == ReSet(WHITESPACE)
WORDCHARS == DIGITS \cup Range(UPPERCASE) \cup Range(LOWERCASE) \cup {"_"}
ReWord == ReSet(WORDCHARS)

\* . : any character but a newline
ReAny == [k |-> "any"]

-----------------------------------------------------------------------------
(* Give-up detection and the escalation collector (agent.py)               *)

\* Phrases that trigger escalation mode.
GIVE_UP_PHRASES ==
  <<
    <<"d","i","d","n","'","t"," ","w","o","r","k">>,
    <<"d","i","d","n","t"," ","w","o","r","k">>,
    <<"d","o","e","s","n","'","t"," ","w","o","r","k">>,
    <<"d","o","e","s","n","t"," ","w","o","r","k">>,
    <<"n","o","t"," ","w","o","r","k","i","n","g">>,
    <<"s","t","i","l","l"," ","b","r","o","k","e","n">>,
    <<"s","t","i","l","l"," ","n","o","t">>,
    <<"c","a","l","l"," ","a"," ","p","r","o">>,
    <<"c","a","l","l"," ","s","o","m","e","o","n","e">>,
    <<"n","e","e","d"," ","a"," ","p","r","o","f","e","s","s","i","o","n","a","l">>,
    <<"n","e","e","d"," ","p","r","o","f","e","s","s","i","o","n","a","l">>,
    <<"s","e","n","d"," ","s","o","m","e","o","n","e">>,
    <<"g","e","t"," ","h","e","l","p">>,
    <<"g","i","v","e"," ","u","p">>,
    <<"i"," ","g","i","v","e"," ","u","p">>,
    <<"f","o","r","g","e","t"," ","i","t">>,
    <<"j","u","s","t"," ","f","i","x"," ","i","t">>,
    <<"c","a","n","'","t"," ","f","i","x">>,
    <<"c","a","n","t"," ","f","i","x">>,
    <<"t","o","o"," ","h","a","r","d">>,
    <<"t","o","o"," ","c","o","m","p","l","i","c","a","t","e","d">>,
    <<"n","e","e","d"," ","a"," ","p","l","u","m","b","e","r">>,
    <<"n","e","e","d"," ","a","n"," ","e","l","e","c","t","r","i","c","i","a","n">>,
    <<"n","e","e","d"," ","a"," ","t","e","c","h","n","i","c","i","a","n">>,
    <<"e","s","c","a","l","a","t","e">>,
    <<"t","a","l","k"," ","t","o"," ","h","u","m","a","n">>,
    <<"r","e","a","l"," ","p","e","r","s","o","n">>
  >>

\* _detect_give_up without text.lower(): the phrases are sought as written.
_detect_give_up_case_sensitive(text) ==
    IF text = None \/ text = <<>> THEN FALSE
    ELSE \E p \in DOMAIN GIVE_UP_PHRASES : Contains(text, GIVE_UP_PHRASES[p])

\* MaintenanceAgent._detect_give_up
_detect_give_up(text) ==
    IF text = None \/ text = <<>> THEN FALSE
    ELSE LET text_lower == Lower(text)
         IN  \E p \in DOMAIN GIVE_UP_PHRASES :
                 Contains(text_lower, GIVE_UP_PHRASES[p])

\* r'(\d{3}[-.\s]?\d{3}[-.\s]?\d{4}|\(\d{3}\)\s?\d{3}[-.\s]?\d{4})'
PHONE_PATTERN ==
    LET d3 == ReRep(ReDigit, 3, 3, TRUE)
        d4 == ReRep(ReDigit, 4, 4, TRUE)
        sep == ReOpt(ReSet({"-", "."} \cup WHITESPACE))
    IN  ReAlt(<<
            ReSeq(<<d3, sep, d3, sep, d4>>),
            ReSeq(<<ReSet({"("}), d3, ReSet({")"}), ReOpt(ReSpace), d3, sep, d4>>)
        >>)

\* (?:is|:)?  under re.IGNORECASE
IS_OR_COLON == ReOpt(ReAlt(<<ReLit(<<"i","s">>, TRUE), ReSet({":"})>>))

\* access_patterns[0], re.IGNORECASE:
\*   r'(?:key|code|access|gate|door)\s*(?:is|:)?\s*[#]?(\w+[-\w]*)'
\* as <<what precedes group 1, group 1, what follows it>>
ACCESS_PATTERN_1 ==
    << ReSeq(<<
           ReAlt(<<ReLit(<<"k","e","y">>, TRUE),
                   ReLit(<<"c","o","d","e">>, TRUE),
                   ReLit(<<"a","c","c","e","s","s">>, TRUE),
                   ReLit(<<"g","a","t","e">>, TRUE),
                   ReLit(<<"d","o","o","r">>, TRUE)>>),
           ReStar(ReSpace), IS_OR_COLON, ReStar(ReSpace), ReOpt(ReSet({"#"}))>>),
       ReSeq(<<RePlus(ReWord), ReStar(ReSet(WORDCHARS \cup {"-"}))>>),
       ReNothing >>

\* access_patterns[1], re.IGNORECASE:
\*   r'(?:available|availability|free)\s*(?:is|:)?\s*(.+?)(?:\.|$)'
ACCESS_PATTERN_2 ==
    << ReSeq(<<
           ReAlt(<<ReLit(<<"a","v","a","i","l","a","b","l","e">>, TRUE),
                   ReLit(<<"a","v","a","i","l","a","b","i","l","i","t","y">>, TRUE),
                   ReLit(<<"f","r","e","e">>, TRUE)>>),
           ReStar(ReSpace), IS_OR_COLON, ReStar(ReSpace)>>),
       ReRep(ReAny, 1, -1, FALSE),
       ReAlt(<<ReSet({"."}), ReEnd>>) >>

access_patterns == <<ACCESS_PATTERN_1, ACCESS_PATTERN_2>>

\* The user turns of a history, in order.
UserContents(history) ==
    LET users == SelectSeq(history, LAMBDA m : Get(m, "role", "None") = "user")
    IN  [k \in DOMAIN users |-> Get(users[k], "content", <<>>)]

\* The dict _detect_escalation_info returns (agent.py:172), given the result of
\* the phone search and of the first access pattern that matches.
collected(phone_match, match) ==
    [has_phone |-> Len(phone_match) > 0,
     has_access |-> Len(match) > 0,
     phone |-> IF Len(phone_match) > 0 THEN phone_match[1] ELSE None,
     access |-> IF Len(match) > 0 THEN Strip(match[1]) ELSE None]

\* MaintenanceAgent._detect_escalation_info
_detect_escalation_info(history) ==
    LET full_text == Join(<<" ">>, UserContents(history))
    IN  collected(
            ReSearchGroup(ReNothing, PHONE_PATTERN, ReNothing, full_text),
            ReOrElse(ReSearchGroup(access_patterns[1][1], access_patterns[1][2],
                                   access_patterns[1][3], full_text),
                     ReSearchGroup(access_patterns[2][1], access_patterns[2][2],
                                   access_patterns[2][3], full_text)))

-----------------------------------------------------------------------------
(* The texts the agent writes (agent.py). A character outside ASCII is     *)
(* written "U+<code point>".                                               *)

\* f"{x}" : None is formatted as the text None
Format(x) == IF x = None THEN <<"N","o","n","e">> ELSE x


\* agent.py:443, before {summary}
TEXT_TICKET_HEAD ==
    <<"U+2705"," ","G","o","t"," ","i","t","!"," ","I","'","m"," ","c","r","e","a","t",
      "i","n","g"," ","a"," ","s","e","r","v","i","c","e"," ","t","i","c","k","e","t",
      " ","n","o","w",".","\n","\n","U+1F4CB"," ","*","*","T","i","c","k","e","t"," ",
      "S","u","m","m","a","r","y",":","*","*","\n">>

\* agent.py:443, after {summary}
TEXT_TICKET_TAIL ==
    <<"\n","\n","A"," ","p","r","o","f","e","s","s","i","o","n","a","l"," ","w","i","l",
      "l"," ","c","o","n","t","a","c","t"," ","y","o","u"," ","s","o","o","n",".">>

\* agent.py:455
TEXT_NEED_BOTH ==
    <<"I"," ","u","n","d","e","r","s","t","a","n","d"," ","-"," ","l","e","t"," ","m",
      "e"," ","c","o","n","n","e","c","t"," ","y","o","u"," ","w","i","t","h"," ","a",
      " ","p","r","o","f","e","s","s","i","o","n","a","l","."," ","T","o"," ","c","r",
      "e","a","t","e"," ","a"," ","s","e","r","v","i","c","e"," ","t","i","c","k","e",
      "t",","," ","I"," ","n","e","e","d",":","\n","\n","1","U+FE0F","U+20E3"," ","*",
      "*","Y","o","u","r"," ","p","h","o","n","e"," ","n","u","m","b","e","r","*","*",
      " ","(","s","o"," ","t","h","e"," ","t","e","c","h","n","i","c","i","a","n"," ",
      "c","a","n"," ","r","e","a","c","h"," ","y","o","u",")","\n","2","U+FE0F",
      "U+20E3"," ","*","*","A","c","c","e","s","s"," ","i","n","f","o","*","*"," ","(",
      "g","a","t","e"," ","c","o","d","e",","," ","k","e","y"," ","l","o","c","a","t",
      "i","o","n",","," ","o","r"," ","b","e","s","t"," ","t","i","m","e","s"," ","t",
      "o"," ","v","i","s","i","t",")">>

\* agent.py:464, before {access}
TEXT_ACCESS_NOTED ==
    <<"T","h","a","n","k","s","!"," ","A","c","c","e","s","s"," ","i","n","f","o"," ",
      "n","o","t","e","d",":"," ","*","*">>

\* agent.py:464, after {access}
TEXT_ASK_PHONE ==
    <<"*","*","\n","\n","N","o","w",","," ","w","h","a","t","'","s"," ","t","h","e"," ",
      "b","e","s","t"," ","p","h","o","n","e"," ","n","u","m","b","e","r"," ","t","o",
      " ","r","e","a","c","h"," ","y","o","u","?">>

\* agent.py:473, before {phone}
TEXT_GOT_NUMBER ==
    <<"G","o","t"," ","y","o","u","r"," ","n","u","m","b","e","r",":"," ","*","*">>

\* agent.py:473, after {phone}
TEXT_ASK_ACCESS ==
    <<"*","*","\n","\n","L","a","s","t","l","y",","," ","w","h","a","t","'","s"," ","t",
      "h","e"," ","a","c","c","e","s","s"," ","c","o","d","e"," ","o","r"," ","b","e",
      "s","t"," ","t","i","m","e"," ","f","o","r"," ","t","h","e"," ","t","e","c","h",
      "n","i","c","i","a","n"," ","t","o"," ","v","i","s","i","t","?">>

\* agent.py:327, 534
TEXT_MORE_DETAILS ==
    <<"C","o","u","l","d"," ","y","o","u"," ","p","r","o","v","i","d","e"," ","m","o",
      "r","e"," ","d","e","t","a","i","l","s"," ","a","b","o","u","t"," ","t","h","e",
      " ","i","s","s","u","e","?">>

\* agent.py:375, 584
TEXT_TRY_AGAIN ==
    <<"I"," ","e","n","c","o","u","n","t","e","r","e","d"," ","a","n"," ","i","s","s",
      "u","e","."," ","P","l","e","a","s","e"," ","t","r","y"," ","a","g","a","i","n",
      ".">>

\* agent.py:369, 578
TEXT_EMERGENCY_PREFIX ==
    <<"U+1F6A8"," ","E","M","E","R","G","E","N","C","Y",":"," ">>

\* agent.py:369, 578
TEXT_EMERGENCY_DEFAULT ==
    <<"T","h","i","s"," ","i","s"," ","a","n"," ","e","m","e","r","g","e","n","c","y",
      " ","s","i","t","u","a","t","i","o","n","."," ","P","l","e","a","s","e"," ","e",
      "v","a","c","u","a","t","e"," ","i","f"," ","n","e","c","e","s","s","a","r","y",
      " ","a","n","d"," ","c","a","l","l"," ","e","m","e","r","g","e","n","c","y"," ",
      "s","e","r","v","i","c","e","s",".">>

\* agent.py:247
TEXT_VENDOR_FALLBACK ==
    <<"M","a","i","n","t","e","n","a","n","c","e"," ","i","s","s","u","e"," ","-"," ",
      "t","e","n","a","n","t"," ","r","e","q","u","e","s","t","e","d"," ","p","r","o",
      "f","e","s","s","i","o","n","a","l"," ","h","e","l","p",".">>

\* agent.py:233
TEXT_MAINTENANCE_NEEDED ==
    <<"M","a","i","n","t","e","n","a","n","c","e"," ","n","e","e","d","e","d">>

TEXT_ISSUE ==
    <<"I","s","s","u","e",":"," ">>

TEXT_DIY ==
    <<"D","I","Y",":"," ">>

TEXT_PARTS ==
    <<"P","a","r","t","s",":"," ">>

TEXT_ACCESS ==
    <<"A","c","c","e","s","s",":"," ">>

TEXT_CONTACT ==
    <<"C","o","n","t","a","c","t",":"," ">>

TEXT_DOT_SPACE ==
    <<"."," ">>

-----------------------------------------------------------------------------
(* The oracle's answers                                                    *)
(*                                                                         *)
(* response.text of model.generate_content is read as one of               *)
(*   raises   generate_content (or reading .text) throws                   *)
(*   garbage  the text raw, which json.loads rejects with or without fences *)
(*   value    text that parses to a JSON value that is no object           *)
(*   object   text that parses to a JSON object, the dict obj              *)

OracleRaises == [kind |-> "raises"]
OracleGarbage(raw) == [kind |-> "garbage", raw |-> raw]
OracleValue == [kind |-> "value"]
OracleObject(obj) == [kind |-> "object", obj |-> obj]

\* The markdown code fence, and its opening when it names json (the backquote
\* is written "U+0060").
FENCE == <<"U+0060","U+0060","U+0060">>
FENCE_JSON == <<"U+0060","U+0060","U+0060","j","s","o","n">>

\* text[n:] when text starts with p (agent.py:864-867)
DropPrefix(text, p, n) ==
    IF StartsWith(text, p) THEN SubSeq(text, n + 1, Len(text)) ELSE text

\* text[:-n] when text ends with p (agent.py:868-869)
DropSuffix(text, p, n) ==
    IF EndsWith(text, p) THEN SubSeq(text, 1, Len(text) - n) ELSE text

\* The fence removal of _parse_json_response (agent.py:861-870).
StripFences(response_text) ==
    Strip(DropSuffix(DropPrefix(DropPrefix(Strip(response_text), FENCE_JSON, 7),
                                FENCE, 3),
                     FENCE, 3))

\* MaintenanceAgent._parse_json_response on an answer that did not raise: the
\* value json.loads gives for the text without its fences, else {"text": text}.
\* isdict tells whether the result has a .get method.
_parse_json_response(response) ==
    CASE response.kind = "object" -> [isdict |-> TRUE, d |-> response.obj]
      [] response.kind = "value" -> [isdict |-> FALSE, d |-> EmptyDict]
      [] response.kind = "garbage" ->
            [isdict |-> TRUE, d |-> [text |-> StripFences(response.raw)]]

\* The seven slots, in priority order (TRIAGE_SYSTEM_PROMPT, agent.py:69).
SLOTS == <<"tenant_name", "unit", "issue", "severity", "location", "access", "contact">>

\* missing_info of the safe default decision (agent.py:379, 588).
ALL_SLOTS_MISSING ==
    <<"Tenant_Name", "Unit", "Issue", "Severity", "Location", "Access", "Contact">>

-----------------------------------------------------------------------------
(* MaintenanceAgent (agent.py)                                             *)

\* The latest user message (agent.py:415-419).
LatestUserMessage(history) ==
    LET users == {k \in DOMAIN history : Get(history[k], "role", "None") = "user"}
    IN  IF users = {} THEN <<>>
        ELSE LET last == CHOOSE k \in users : \A j \in users : j <= k
             IN  Get(history[last], "content", <<>>)

\* A composer that hands on the oracle's summary, or the default issue line,
\* without the collected access and phone.
_generate_vendor_summary_without_contact(history, contact_info, response) ==
    IF response.kind = "raises" \/ ~_parse_json_response(response).isdict
    THEN <<TEXT_VENDOR_FALLBACK, "Other">>
    ELSE <<IF Truthy(Get(_parse_json_response(response).d, "summary", <<>>))
           THEN Strip(_parse_json_response(response).d["summary"])
           ELSE Strip(TEXT_ISSUE \o TEXT_MAINTENANCE_NEEDED \o TEXT_DOT_SPACE),
           Get(_parse_json_response(response).d, "category", "Other")>>

\* MaintenanceAgent._generate_vendor_summary: <<summary, category>>
_generate_vendor_summary(history, contact_info, response) ==
    IF response.kind = "raises" THEN <<TEXT_VENDOR_FALLBACK, "Other">>
    ELSE LET parsed == _parse_json_response(response)
             result == parsed.d
             summary0 == Get(result, "summary", <<>>)
             issue == TEXT_ISSUE \o Format(Get(result, "issue", TEXT_MAINTENANCE_NEEDED))
                          \o TEXT_DOT_SPACE
             diy == IF Truthy(Get(result, "diy_attempted", None))
                    THEN TEXT_DIY \o result["diy_attempted"] \o TEXT_DOT_SPACE
                    ELSE <<>>
             parts == IF Truthy(Get(result, "likely_parts", None))
                      THEN TEXT_PARTS \o result["likely_parts"] \o TEXT_DOT_SPACE
                      ELSE <<>>
             summary1 == IF Truthy(summary0) THEN summary0 ELSE issue \o diy \o parts
             access == IF Truthy(Get(contact_info, "access", None))
                       THEN TEXT_ACCESS \o contact_info["access"] \o TEXT_DOT_SPACE
                       ELSE <<>>
             phone == IF Truthy(Get(contact_info, "phone", None))
                      THEN TEXT_CONTACT \o contact_info["phone"]
                      ELSE <<>>
         IN  IF ~parsed.isdict
             THEN \* result.get raises AttributeError, caught at agent.py:246
                  <<TEXT_VENDOR_FALLBACK, "Other">>
             ELSE <<Strip(summary1 \o access \o phone), Get(result, "category", "Other")>>

\* The safe default decision of the except branch (agent.py:373-383, 582-594).
ErrorDecision(error, extra) ==
    [text |-> TEXT_TRY_AGAIN, risk |-> "Yellow", action |-> "QUESTION",
     category |-> "Other", missing_info |-> ALL_SLOTS_MISSING,
     filled_slots |-> EmptyDict, request_photo |-> FALSE, error |-> error] @@ extra

\* A ticket_data that holds the default risk whatever the decision's.
TicketData_default_risk(result, filled_slots) ==
    [k \in Range(SLOTS) |-> Get(filled_slots, k, None)]
    @@ [category |-> Get(result, "category", "Other"), risk |-> "Yellow"]

\* ticket_data of a CREATE_TICKET or CONFIRM decision (agent.py:339-349).
TicketData(result, filled_slots) ==
    [k \in Range(SLOTS) |-> Get(filled_slots, k, None)]
    @@ [category |-> Get(result, "category", "Other"),
        risk |-> Get(result, "risk", "Yellow")]

\* The action of a slot-filling decision under another rule: QUESTION while a
\* slot of the oracle's filled_slots is null or absent, else the oracle's.
DecisionAction_question_while_slot_open(result) ==
    IF \E k \in DOMAIN SLOTS :
           Get(Get(result, "filled_slots", EmptyDict), SLOTS[k], None) = None
    THEN "QUESTION"
    ELSE Get(result, "action", "QUESTION")

\* The action of a slot-filling decision: the oracle's (agent.py:322, 529).
DecisionAction(result) == Get(result, "action", "QUESTION")

\* The try block of triage (agent.py:318-383) and of triage_with_image_bytes
\* (agent.py:525-594) on the oracle's answer; extra holds the keys only the
\* latter adds (escalation_mode, contact_info).
SlotFillingDecision(response, extra) ==
    IF response.kind = "raises" THEN ErrorDecision("oracle", extra)
    ELSE LET parsed == _parse_json_response(response)
             result == parsed.d
             action == DecisionAction(result)
             missing_info == Get(result, "missing_info", <<>>)
             filled_slots == Get(result, "filled_slots", EmptyDict)
             response_data ==
                 [text |-> Get(result, "text", TEXT_MORE_DETAILS),
                  risk |-> Get(result, "risk", "Yellow"),
                  action |-> action,
                  category |-> Get(result, "category", "Other"),
                  missing_info |-> missing_info,
                  filled_slots |-> filled_slots,
                  request_photo |-> Get(result, "request_photo", FALSE)] @@ extra
             ticket == [ticket_data |-> TicketData(result, filled_slots)]
         IN  IF ~parsed.isdict
             THEN \* result.get raises AttributeError
                  ErrorDecision("AttributeError", extra)
             ELSE IF action \in {"CREATE_TICKET", "CONFIRM"} /\ filled_slots = NoneDict
             THEN \* filled_slots.get raises AttributeError
                  ErrorDecision("AttributeError", extra)
             ELSE IF action = "CREATE_TICKET"
             THEN [ready_for_ticket |-> TRUE] @@ ticket @@ response_data
             ELSE IF action = "CONFIRM"
             THEN [awaiting_confirmation |-> TRUE] @@ ticket @@ response_data
             ELSE IF action = "EMERGENCY"
             THEN [is_emergency |-> TRUE,
                   text |-> TEXT_EMERGENCY_PREFIX
                            \o Format(Get(result, "text", TEXT_EMERGENCY_DEFAULT))]
                  @@ response_data
             ELSE response_data

\* A follow-up that asks for both fields whichever is missing.
FollowUpText_asks_for_both(has_phone, has_access, collected_info) == TEXT_NEED_BOTH

\* The text of the follow-up when a field is missing (agent.py:453-479).
FollowUpText(has_phone, has_access, collected_info) ==
    IF ~has_phone /\ ~has_access
    THEN TEXT_NEED_BOTH
    ELSE IF ~has_phone
    THEN TEXT_ACCESS_NOTED \o Format(Get(collected_info, "access", None)) \o TEXT_ASK_PHONE
    ELSE TEXT_GOT_NUMBER \o Format(Get(collected_info, "phone", None)) \o TEXT_ASK_ACCESS

\* The escalation branch of triage_with_image_bytes (agent.py:426-479), on
\* the collected info as merged: the decision it returns.
EscalationDecision(history, collected_info, vendor_response) ==
    LET has_phone == Truthy(Get(collected_info, "phone", None))
        has_access == Truthy(Get(collected_info, "access", None))
        vendor == _generate_vendor_summary(history, collected_info, vendor_response)
        follow_up ==
            [text |-> FollowUpText(has_phone, has_access, collected_info),
             risk |-> "Yellow", action |-> "Escalate", category |-> "Other",
             escalation_mode |-> TRUE, contact_info |-> collected_info]
    IN  IF has_phone /\ has_access
        THEN [text |-> TEXT_TICKET_HEAD \o vendor[1] \o TEXT_TICKET_TAIL,
              risk |-> "Yellow", action |-> "CREATE_TICKET", category |-> vendor[2],
              escalation_mode |-> FALSE, contact_info |-> collected_info,
              ticket_summary |-> vendor[1]]
        ELSE follow_up

\* A merge that replaces the collected fields by what was detected, found or not.
MergeDetected_replaces(collected_info, detected) ==
    [phone |-> detected.phone, access |-> detected.access] @@ collected_info

\* A merge that keeps a phone already collected.
MergeDetected_keeps_phone(collected_info, detected) ==
    LET with_phone == IF detected.has_phone /\ ~Truthy(Get(collected_info, "phone", None))
                      THEN [phone |-> detected.phone] @@ collected_info
                      ELSE collected_info
    IN  IF detected.has_access
        THEN [access |-> detected.access] @@ with_phone
        ELSE with_phone

\* The merge of the detected fields into the collected ones (agent.py:431-434).
MergeDetected(collected_info, detected) ==
    LET with_phone == IF detected.has_phone
                      THEN [phone |-> detected.phone] @@ collected_info
                      ELSE collected_info
    IN  IF detected.has_access
        THEN [access |-> detected.access] @@ with_phone
        ELSE with_phone

\* The oracle call of the slot-filling branch: the prompt says whether an
\* image was uploaded, and the image is a second part when there is one.
TriagePrompt(image_uploaded, image_attached) ==
    [prompt |-> "triage", image_uploaded |-> image_uploaded,
     parts |-> IF image_attached THEN 2 ELSE 1]

\* What the escalation branch leaves (agent.py:426-479), `merged` being the
\* collected fields after the merge: the decision, the oracle call made for
\* the vendor summary, and the caller's collected_info object, which is
\* updated in place when it is a non-empty dict (None and {} were replaced by
\* a new dict at agent.py:412), and the caller's history list, which is read
\* only (agent.py:416, 428, 441).
EscalationBranch(history, collected_info, merged, vendor_response) ==
    [decision |-> EscalationDecision(history, merged, vendor_response),
     history |-> history,
     oracle_calls |-> IF /\ Truthy(Get(merged, "phone", None))
                         /\ Truthy(Get(merged, "access", None))
                      THEN <<[prompt |-> "vendor_summary"]>> ELSE <<>>,
     collected_info |-> IF collected_info = NoneDict \/ collected_info = EmptyDict
                        THEN collected_info ELSE merged]

\* MaintenanceAgent.triage_with_image_bytes. image_data is "None", "b''" (no
\* bytes) or "bytes"; collected_info is NoneDict or a dict. The result holds the
\* decision returned, the oracle calls made and the caller's collected_info
\* object and history list as the call leaves them (the history is read by
\* the loop of agent.py:416 and by _format_history, agent.py:484, 796-803).
triage_with_image_bytes(history, image_data, escalation_mode, collected_info, oracle) ==
    IF escalation_mode \/ _detect_give_up(LatestUserMessage(history))
    THEN EscalationBranch(history, collected_info,
             MergeDetected(IF collected_info = NoneDict \/ collected_info = EmptyDict
                           THEN EmptyDict ELSE collected_info,
                           _detect_escalation_info(history)),
             oracle.vendor)
    ELSE [decision |->
              SlotFillingDecision(oracle.triage,
                  [escalation_mode |-> FALSE, contact_info |-> EmptyDict]),
          oracle_calls |->
              <<TriagePrompt(image_data # "None", image_data = "bytes")>>,
          collected_info |-> collected_info,
          history |-> history]

\* A triage that appends its reply to the history it was given.
triage_appends_reply(history, image_path, oracle) ==
    [decision |-> SlotFillingDecision(oracle.triage, EmptyDict),
     oracle_calls |-> <<TriagePrompt(image_path # "None", image_path = "file")>>,
     collected_info |-> NoneDict,
     history |-> Append(history,
                     [role |-> "assistant",
                      content |-> SlotFillingDecision(oracle.triage, EmptyDict).text])]

\* MaintenanceAgent.triage. image_path is "None", "missing" (no such file) or
\* "file" (a readable image). The history is read by _format_history
\* (agent.py:274) and left as it is.
triage(history, image_path, oracle) ==
    [decision |-> SlotFillingDecision(oracle.triage, EmptyDict),
     oracle_calls |-> <<TriagePrompt(image_path # "None", image_path = "file")>>,
     collected_info |-> NoneDict,
     history |-> history]

-----------------------------------------------------------------------------
(* The inputs: conversation turns, collected fields, images and the        *)
(* oracle's answers                                                        *)

MaxHistory == 2
MaxTurns == 2
\* the audits made, at most
MaxAudits == 2

\* {"role": "user", "content": content}, as chat appends it (main.py:166)
UserTurn(content) == [role |-> "user", content |-> content]
\* {"role": "assistant", "content": content} (main.py:192)
AssistantTurn(content) == [role |-> "assistant", content |-> content]

SAY_GIVE_UP == <<"I"," ","G","I","V","E"," ","U","P">>
SAY_PHONE == <<"5","5","5","-","9","8","7","-","6","5","4","3">>
SAY_ACCESS == <<"c","o","d","e"," ","i","s"," ","4","3","2","1">>
SAY_GAS == <<"I"," ","s","m","e","l","l"," ","g","a","s">>
SAY_YES == <<"y","e","s">>
SAY_CALL_A_PRO == <<"c","a","l","l"," ","a"," ","p","r","o"," ","5","5","5","-","0","0","0","-","1","1","1","1">>
SAY_OTHER_PHONE == <<"n","o",","," ","(","5","5","5",")"," ","2","2","2","-","3","3","3","3">>
PHONE_ON_FILE == <<"5","5","5","-","1","2","3","-","4","5","6","7">>
ACCESS_ON_FILE == <<"b","a","c","k"," ","d","o","o","r">>

\* The turns of the histories handed to the escalation flow: the assistant's
\* turn holds a give-up phrase and a phone number of its own.
EscalationTurns ==
    {UserTurn(SAY_GIVE_UP), UserTurn(SAY_PHONE), UserTurn(SAY_ACCESS),
     AssistantTurn(SAY_CALL_A_PRO)}

\* The histories in which the user gives a phone number and then another.
CorrectedHistories ==
    {<<UserTurn(SAY_PHONE), UserTurn(SAY_OTHER_PHONE)>>,
     <<UserTurn(SAY_OTHER_PHONE), UserTurn(SAY_PHONE)>>}

\* history: List[Dict[str, Any]] of at most MaxHistory turns
Histories == UNION {[1..n -> EscalationTurns] : n \in 0..MaxHistory} \cup CorrectedHistories

\* The histories handed to the slot-filling flow.
SlotFillingHistories ==
    {<<>>, <<UserTurn(SAY_GAS)>>,
     <<UserTurn(SAY_PHONE), AssistantTurn(SAY_CALL_A_PRO), UserTurn(SAY_YES)>>}

\* collected_info: Optional[Dict[str, Any]]
CollectedInfos ==
    {NoneDict, EmptyDict,
     [phone |-> PHONE_ON_FILE, access |-> None],
     [access |-> ACCESS_ON_FILE],
     [phone |-> PHONE_ON_FILE, access |-> ACCESS_ON_FILE]}

\* image_data: Optional[bytes]
ImageData == {"None", "b''", "bytes"}
\* image_path: Optional[str]
ImagePaths == {"None", "missing", "file"}

\* filled_slots as the oracle may return it
ALL_FILLED ==
    [tenant_name |-> <<"A","n","n">>, unit |-> <<"4","B">>, issue |-> <<"l","e","a","k">>,
     severity |-> <<"d","r","i","p">>, location |-> <<"b","a","t","h">>,
     access |-> <<"k","e","y">>, contact |-> PHONE_ON_FILE]
CONTACT_OPEN == [contact |-> None] @@ ALL_FILLED
CONTACT_VAGUE == [contact |-> <<"c","a","l","l"," ","m","e">>] @@ ALL_FILLED
NAME_ONLY == [tenant_name |-> <<"A","n","n">>]

ASK_CONFIRM == <<"I","s"," ","t","h","i","s"," ","c","o","r","r","e","c","t","?">>
ASK_CONTACT == <<"Y","o","u","r"," ","c","o","n","t","a","c","t","?">>
ASK_TWO == <<"U","n","i","t","?"," ","I","s","s","u","e","?">>

\* What the oracle's JSON object says of the slots, with the text it wrote.
SlotProfiles ==
    {EmptyDict,
     [filled_slots |-> ALL_FILLED, missing_info |-> <<>>, text |-> ASK_CONFIRM,
      category |-> "Plumbing"],
     [filled_slots |-> CONTACT_OPEN, missing_info |-> <<"Contact">>,
      text |-> ASK_CONTACT, request_photo |-> TRUE],
     [filled_slots |-> CONTACT_VAGUE, missing_info |-> <<>>, text |-> ASK_CONFIRM],
     [filled_slots |-> NAME_ONLY, missing_info |-> <<>>, text |-> ASK_TWO],
     [filled_slots |-> NoneDict, text |-> None]}

\* "action" of the oracle's JSON object: the four of the prompt (agent.py:507)
\* and one that is none of them.
ORACLE_ACTIONS == {"QUESTION", "CONFIRM", "CREATE_TICKET", "EMERGENCY", "Info"}
\* "risk" of the oracle's JSON object (agent.py:506)
ORACLE_RISKS == {"Green", "Yellow", "Red"}

GARBAGE_PLAIN == <<"o","o","p","s">>
GARBAGE_FENCED == <<"U+0060","U+0060","U+0060","j","s","o","n","\n","n","o","\n","U+0060","U+0060","U+0060">>

\* What generate_content may answer to the triage prompt.
TriageAnswers ==
    {OracleRaises, OracleValue, OracleGarbage(GARBAGE_PLAIN), OracleGarbage(GARBAGE_FENCED)}
    \cup {OracleObject(a @@ r @@ p) :
            a \in {EmptyDict} \cup {[action |-> x] : x \in ORACLE_ACTIONS},
            r \in {EmptyDict} \cup {[risk |-> x] : x \in ORACLE_RISKS},
            p \in SlotProfiles}

VENDOR_SUMMARY == <<"L","e","a","k">>
VENDOR_ISSUE == <<"D","r","i","p">>
VENDOR_DIY == <<"t","a","p","e">>
VENDOR_PARTS == <<"h","o","s","e">>

\* What generate_content may answer to the vendor summary prompt.
VendorAnswers ==
    {OracleRaises, OracleValue, OracleGarbage(GARBAGE_PLAIN),
     OracleObject([summary |-> VENDOR_SUMMARY, category |-> "Plumbing"]),
     OracleObject([summary |-> <<>>, issue |-> VENDOR_ISSUE, diy_attempted |-> VENDOR_DIY,
                   likely_parts |-> VENDOR_PARTS])}

EMERGENCY_ANSWER ==
    OracleObject([action |-> "EMERGENCY", risk |-> "Red", text |-> SAY_GAS,
                  filled_slots |-> NAME_ONLY, missing_info |-> <<"Unit">>])
CREATE_TICKET_ANSWER ==
    OracleObject([action |-> "CREATE_TICKET", risk |-> "Green", text |-> ASK_CONFIRM,
                  filled_slots |-> ALL_FILLED, missing_info |-> <<>>])
CONFIRM_ANSWER ==
    OracleObject([action |-> "CONFIRM", risk |-> "Green", text |-> ASK_CONFIRM,
                  filled_slots |-> ALL_FILLED, missing_info |-> <<>>])
QUESTION_ANSWER ==
    OracleObject([action |-> "QUESTION", risk |-> "Green", text |-> ASK_CONTACT,
                  filled_slots |-> CONTACT_OPEN, missing_info |-> <<"Contact">>])

\* {"action": "QUESTION", "risk": "Green", "text": null}
NULL_TEXT_ANSWER ==
    OracleObject([action |-> "QUESTION", risk |-> "Green", text |-> None])

\* The answers the oracle would give to the two prompts of one call.
Oracle(triage_answer, vendor_answer) == [triage |-> triage_answer, vendor |-> vendor_answer]

EscalationOracles ==
    {Oracle(EMERGENCY_ANSWER, v) : v \in VendorAnswers}
    \cup {Oracle(t, OracleRaises) : t \in {CREATE_TICKET_ANSWER, OracleRaises}}

SlotFillingOracles == {Oracle(t, OracleRaises) : t \in TriageAnswers}

ChatOracles ==
    {Oracle(t, OracleRaises) :
        t \in {OracleRaises, QUESTION_ANSWER, CONFIRM_ANSWER, CREATE_TICKET_ANSWER,
               NULL_TEXT_ANSWER, OracleObject([action |-> "EMERGENCY", text |-> SAY_GAS])}}

\* The calls of triage_with_image_bytes: the arguments, with the oracle's answers.
TriageWithImageBytesCalls ==
    {[history |-> h, image_data |-> "None", escalation_mode |-> e, collected_info |-> c,
      oracle |-> o] :
        h \in Histories, e \in BOOLEAN, c \in CollectedInfos, o \in EscalationOracles}
    \cup
    {[history |-> h, image_data |-> i, escalation_mode |-> FALSE,
      collected_info |-> NoneDict, oracle |-> o] :
        h \in SlotFillingHistories, i \in ImageData, o \in SlotFillingOracles}

\* The calls of triage.
TriageCalls ==
    {[history |-> h, image_path |-> i, oracle |-> o] :
        h \in SlotFillingHistories, i \in ImagePaths, o \in SlotFillingOracles}

\* The content types chat accepts for an image (main.py:172).
ALLOWED_TYPES == {"image/jpeg", "image/png", "image/webp", "image/gif"}

\* The chat requests: message, the image's content type ("None": no file),
\* ticket_id (0: none), with the oracle's answers.
ChatRequests ==
    {[message |-> m, image |-> "None", ticket_id |-> 0, oracle |-> o] :
        m \in {<<>>, SAY_GIVE_UP, SAY_PHONE, SAY_YES}, o \in ChatOracles}
    \cup
    {[message |-> m, image |-> i, ticket_id |-> 1,
      oracle |-> Oracle(QUESTION_ANSWER, OracleRaises)] :
        m \in {<<>>, SAY_GIVE_UP}, i \in {"None", "image/jpeg", "text/plain"}}

-----------------------------------------------------------------------------
(* The chat endpoint (main.py)                                             *)

\* "[User uploaded an image of the issue]" (main.py:183)
TEXT_IMAGE_NOTE ==
    <<"[","U","s","e","r"," ","u","p","l","o","a","d","e","d"," ","a","n"," ","i","m",
      "a","g","e"," ","o","f"," ","t","h","e"," ","i","s","s","u","e","]">>

\* history[-3:]
LastThree(history) ==
    SubSeq(history, IF Len(history) > 3 THEN Len(history) - 2 ELSE 1, Len(history))

\* The history with the message put before the turns submitted.
ChatHistory_prepends(conversation_history, message, has_image) ==
    IF message # <<>>
    THEN <<UserTurn(message)>> \o conversation_history
    ELSE conversation_history

\* The history chat hands to the agent: the message appended when it is not
\* empty, then the image note unless one of the last three turns speaks of an
\* image (main.py:165-183).
ChatHistory(conversation_history, message, has_image) ==
    LET with_message == IF message # <<>>
                        THEN Append(conversation_history, UserTurn(message))
                        ELSE conversation_history
        last == LastThree(with_message)
        noted == \E k \in DOMAIN last :
                     Contains(Lower(Get(last[k], "content", <<>>)), <<"i","m","a","g","e">>)
    IN  IF has_image /\ ~noted
        THEN Append(with_message, UserTurn(TEXT_IMAGE_NOTE))
        ELSE with_message

\* The ticket row as chat leaves it (main.py:199-205).
UpdateTicket(row, conversation_history, result) ==
    [conversation_history |-> conversation_history,
     risk_level |-> IF Get(result, "risk", "") # "" THEN result.risk ELSE row.risk_level,
     status |-> IF Get(result, "action", "None") = "Escalate" THEN "Escalated"
                ELSE row.status]

\* The body chat returns (main.py:209-216).
ChatResponse(result, conversation_history) ==
    [status_code |-> 200, success |-> TRUE,
     response |-> Get(result, "text", None),
     risk_level |-> Get(result, "risk", "None"),
     action |-> Get(result, "action", "None"),
     needs_more_info |-> Get(result, "action", "None") = "Info",
     conversation_history |-> conversation_history]

\* HTTPException(status_code, detail)
HTTPException(status_code, detail) == [status_code |-> status_code, detail |-> detail]

-----------------------------------------------------------------------------
(* The inspection audits (agent.py:596-902)                                *)

\* The texts the audits write (agent.py:693-702, 773-784).
AUDIT_TEXT ==
    [documented |-> <<"D","o","c","u","m","e","n","t","e","d"," ">>,
     items |-> <<" ","i","t","e","m","s","."," ">>,
     rooms |-> <<"R","o","o","m","s",":"," ">>,
     comma |-> <<","," ">>,
     issues |-> <<"P","r","e","-","e","x","i","s","t","i","n","g"," ","i","s","s","u","e","s",":"," ">>,
     no_issues |->
         <<"N","o"," ","s","i","g","n","i","f","i","c","a","n","t"," ","p","r","e","-","e","x",
           "i","s","t","i","n","g"," ","i","s","s","u","e","s"," ","n","o","t","e","d",".">>,
     inspected |-> <<"I","n","s","p","e","c","t","e","d"," ">>,
     found |-> <<"F","o","u","n","d"," ">>,
     new_damages |->
         <<" ","n","e","w"," ","d","a","m","a","g","e","s","."," ","T","o","t","a","l"," ","e",
           "s","t","i","m","a","t","e","d"," ","c","o","s","t",":"," ","$">>,
     no_new_damages |->
         <<"N","o"," ","n","e","w"," ","d","a","m","a","g","e","s"," ","f","o","u","n","d"," ",
           "b","e","y","o","n","d"," ","n","o","r","m","a","l"," ","w","e","a","r",".">>,
     colon |-> <<":"," ">>,
     cost |-> <<" ","(","$">>]

\* The words that make a condition a pre-existing issue (agent.py:699).
ISSUE_WORDS ==
    <<<<"d","a","m","a","g","e">>, <<"s","c","r","a","t","c","h">>,
      <<"s","t","a","i","n">>, <<"c","r","a","c","k">>, <<"w","o","r","n">>,
      <<"b","r","o","k","e","n">>, <<"m","i","s","s","i","n","g">>>>

\* str(n) for an int n >= 0
RECURSIVE Str(_)
Str(n) ==
    LET digit == <<"0","1","2","3","4","5","6","7","8","9">>
    IN  IF n < 10 THEN <<digit[n + 1]>>
        ELSE Str(n \div 10) \o <<digit[(n % 10) + 1]>>

\* The oracle answered text that holds a JSON array, the list items.
OracleArray(items) == [kind |-> "array", items |-> items]

\* MaintenanceAgent._parse_json_array on an answer that did not raise: the
\* list the text holds, else [].
_parse_json_array(response) ==
    IF response.kind = "array" THEN response.items ELSE <<>>

\* The call of genai.upload_file or genai.get_file that settles the video:
\* `states` holds what upload_file and then each get_file would answer, the
\* name of a state or "raises"; polling goes on while it is PROCESSING.
Settles(states) ==
    CHOOSE k \in DOMAIN states :
        /\ states[k] # "PROCESSING"
        /\ \A j \in 1..(k - 1) : states[j] = "PROCESSING"

\* An upload that hands on the file whatever state polling ended in.
_upload_video_returns_failed(states) ==
    [uploaded |-> states[1] # "raises",
     polls |-> Settles(states) - 1,
     raised |-> IF states[Settles(states)] = "raises"
                THEN IF Settles(states) = 1 THEN "upload_file" ELSE "get_file"
                ELSE "None"]

\* MaintenanceAgent._upload_video: whether the video reached the oracle's
\* storage, the get_file calls made, and the exception raised ("None": the
\* file is returned).
_upload_video(states) ==
    [uploaded |-> states[1] # "raises",
     polls |-> Settles(states) - 1,
     raised |-> IF states[Settles(states)] = "raises"
                THEN IF Settles(states) = 1 THEN "upload_file" ELSE "get_file"
                ELSE IF states[Settles(states)] = "FAILED"
                THEN "Video processing failed"
                ELSE "None"]

\* The result of the except branch (agent.py:713-714, 786-787).
AuditError(error) == [success |-> FALSE, error |-> error, items |-> <<>>]

\* An audit that has not touched the oracle.
NotAudited(result) ==
    [result |-> result, uploaded |-> FALSE, polls |-> 0, generate_calls |-> <<>>,
     delete_calls |-> 0, stored |-> FALSE]

\* The try / except / finally of both audits (agent.py:669-717, 729-790):
\* upload, one generate_content call with the prompt, the report made of its
\* answer, and _delete_video when video_file was assigned. stored tells
\* whether the video is left in the oracle's storage (_delete_video swallows
\* what delete_file raises, agent.py:841-847).
Audited(upload, generate, delete, prompt, report) ==
    [result |-> IF upload.raised # "None" THEN AuditError(upload.raised)
                ELSE IF generate.kind = "raises" THEN AuditError("generate_content")
                ELSE report,
     uploaded |-> upload.uploaded,
     polls |-> upload.polls,
     generate_calls |-> IF upload.raised = "None" THEN <<prompt>> ELSE <<>>,
     delete_calls |-> IF upload.raised = "None" THEN 1 ELSE 0,
     stored |-> upload.uploaded /\ ~(upload.raised = "None" /\ delete = "ok")]

\* An issue test that does not lower the condition first.
HasIssue_case_sensitive(item) ==
    \E w \in DOMAIN ISSUE_WORDS :
        Contains(Get(item, "condition", <<>>), ISSUE_WORDS[w])

\* The condition of the item holds one of ISSUE_WORDS (agent.py:698-699).
HasIssue(item) ==
    \E w \in DOMAIN ISSUE_WORDS :
        Contains(Lower(Get(item, "condition", <<>>)), ISSUE_WORDS[w])

\* The rooms of the items, as a set (agent.py:694).
RoomsOf(items) ==
    {items[k].room : k \in {j \in DOMAIN items : Truthy(Get(items[j], "room", None))}}

\* list(set): the orders in which a set may be listed.
Orders(S) ==
    {p \in [1..Cardinality(S) -> S] : \A i, j \in DOMAIN p : p[i] = p[j] => i = j}

\* A summary that is empty when the list is.
MoveInSummary_empty_of_no_items(items, rooms, issues) ==
    IF Len(items) = 0 THEN <<>>
    ELSE AUDIT_TEXT.documented \o Str(Len(items)) \o AUDIT_TEXT.items

\* The summary of a move-in audit (agent.py:693-702).
MoveInSummary(items, rooms, issues) ==
    AUDIT_TEXT.documented \o Str(Len(items)) \o AUDIT_TEXT.items
    \o (IF Len(rooms) > 0
        THEN AUDIT_TEXT.rooms \o Join(AUDIT_TEXT.comma, rooms) \o TEXT_DOT_SPACE
        ELSE <<>>)
    \o (IF Len(issues) > 0
        THEN AUDIT_TEXT.issues \o Str(Len(issues)) \o <<".">>
        ELSE AUDIT_TEXT.no_issues)

\* What _audit_move_in makes of the oracle's items (agent.py:690-711), rooms
\* being the order in which list(set(...)) gave the rooms; i["item"] raises
\* KeyError for an issue without that key.
MoveInReport(items, rooms, issues) ==
    IF \E k \in DOMAIN issues : "item" \notin DOMAIN issues[k]
    THEN AuditError("'item'")
    ELSE [success |-> TRUE,
          items |-> items,
          summary |-> MoveInSummary(items, rooms, issues),
          rooms |-> rooms,
          pre_existing_issues |->
              [k \in DOMAIN issues |->
                  issues[k].item \o AUDIT_TEXT.colon \o issues[k].condition]]

\* MaintenanceAgent._audit_move_in
_audit_move_in(oracle, rooms) ==
    Audited(_upload_video(oracle.states), oracle.generate, oracle.delete,
            [prompt |-> "move-in"],
            MoveInReport(_parse_json_array(oracle.generate), rooms,
                         SelectSeq(_parse_json_array(oracle.generate), HasIssue)))

\* i.get("is_new") (agent.py:768)
IsNew(item) == Get(item, "is_new", FALSE)

\* A sum that stops at the first new damage.
TotalCost_of_first(new_damages) ==
    IF Len(new_damages) = 0 THEN 0 ELSE Get(Head(new_damages), "estimated_cost", 0)

\* sum(i.get("estimated_cost", 0) for i in new_damages) (agent.py:769)
RECURSIVE TotalCost(_)
TotalCost(new_damages) ==
    IF Len(new_damages) = 0 THEN 0
    ELSE Get(Head(new_damages), "estimated_cost", 0) + TotalCost(Tail(new_damages))

\* What _audit_move_out makes of the oracle's items (agent.py:764-784);
\* i['item'] and i['condition'] raise KeyError for a new damage without them.
MoveOutReport(items, new_damages) ==
    IF \E k \in DOMAIN new_damages : "item" \notin DOMAIN new_damages[k]
    THEN AuditError("'item'")
    ELSE IF \E k \in DOMAIN new_damages : "condition" \notin DOMAIN new_damages[k]
    THEN AuditError("'condition'")
    ELSE [success |-> TRUE,
          items |-> items,
          summary |->
              AUDIT_TEXT.inspected \o Str(Len(items)) \o AUDIT_TEXT.items
              \o (IF Len(new_damages) > 0
                  THEN AUDIT_TEXT.found \o Str(Len(new_damages)) \o AUDIT_TEXT.new_damages
                       \o Str(TotalCost(new_damages)) \o <<".">>
                  ELSE AUDIT_TEXT.no_new_damages),
          new_damages |->
              [k \in DOMAIN new_damages |->
                  new_damages[k].item \o AUDIT_TEXT.colon \o new_damages[k].condition
                  \o AUDIT_TEXT.cost
                  \o Str(Get(new_damages[k], "estimated_cost", 0)) \o <<")">>],
          total_estimated_cost |-> TotalCost(new_damages)]

\* baseline_context of the move-out prompt (agent.py:733-743): the items of
\* baseline_json when it is not empty, else baseline_text when it is not
\* empty, else nothing. baseline_json is <<>> for None and for [].
BaselineContext(baseline_text, baseline_json) ==
    IF Len(baseline_json) > 0 THEN [kind |-> "json", baseline |-> baseline_json]
    ELSE IF Truthy(baseline_text) THEN [kind |-> "text", baseline |-> baseline_text]
    ELSE [kind |-> "none", baseline |-> <<>>]

\* MaintenanceAgent._audit_move_out
_audit_move_out(baseline_text, baseline_json, oracle) ==
    Audited(_upload_video(oracle.states), oracle.generate, oracle.delete,
            [prompt |-> "move-out"] @@ BaselineContext(baseline_text, baseline_json),
            MoveOutReport(_parse_json_array(oracle.generate),
                          SelectSeq(_parse_json_array(oracle.generate), IsNew)))

\* An audit_video that uploads the video before it looks at the mode.
audit_video_uploads_first(mode, baseline_text, baseline_json, oracle, rooms) ==
    IF mode = "move-in" THEN _audit_move_in(oracle, rooms)
    ELSE IF mode = "move-out" THEN _audit_move_out(baseline_text, baseline_json, oracle)
    ELSE [NotAudited([success |-> FALSE, error |-> "Invalid mode"])
             EXCEPT !.uploaded = TRUE, !.stored = TRUE]

\* MaintenanceAgent.audit_video, to which audit_video_bytes hands its
\* arguments with the video written to a temporary file (agent.py:600-661).
audit_video(mode, baseline_text, baseline_json, oracle, rooms) ==
    IF mode = "move-in" THEN _audit_move_in(oracle, rooms)
    ELSE IF mode = "move-out" THEN _audit_move_out(baseline_text, baseline_json, oracle)
    ELSE NotAudited([success |-> FALSE, error |-> "Invalid mode"])

\* The items the oracle may list for a move-in video.
MOVE_IN_ITEMS ==
    [sink |-> [room |-> <<"K","i","t","c","h","e","n">>, item |-> <<"S","i","n","k">>, condition |-> <<"G","o","o","d">>],
     wall |-> [room |-> <<"H","a","l","l">>, item |-> <<"W","a","l","l">>,
               condition |-> <<"S","c","r","a","t","c","h","e","d">>],
     unnamed |-> [room |-> <<"H","a","l","l">>, condition |-> <<"B","r","o","k","e","n">>],
     lamp |-> [room |-> <<>>, item |-> <<"L","a","m","p">>,
               condition |-> <<"N","o"," ","D","A","M","A","G","E">>]]

\* The items the oracle may list for a move-out video (agent.py:750-760).
MOVE_OUT_ITEMS ==
    [hole |-> [item |-> <<"W","a","l","l">>, condition |-> <<"h","o","l","e">>, is_new |-> TRUE,
               estimated_cost |-> 150],
     rug |-> [item |-> <<"R","u","g">>, condition |-> <<"w","o","r","n">>, is_new |-> FALSE,
              estimated_cost |-> 0],
     stain |-> [item |-> <<"C","a","r","p","e","t">>, condition |-> <<"s","t","a","i","n">>,
                is_new |-> TRUE],
     door |-> [item |-> <<"D","o","o","r">>, condition |-> <<"d","e","n","t">>,
               estimated_cost |-> 40],
     unnamed |-> [condition |-> <<"h","o","l","e">>, is_new |-> TRUE, estimated_cost |-> 80]]

\* What generate_content may answer to the move-in prompt.
MoveInAnswers ==
    {OracleRaises, OracleGarbage(GARBAGE_PLAIN),
     OracleArray(<<MOVE_IN_ITEMS.sink>>),
     OracleArray(<<MOVE_IN_ITEMS.wall, MOVE_IN_ITEMS.sink>>),
     OracleArray(<<MOVE_IN_ITEMS.lamp, MOVE_IN_ITEMS.wall, MOVE_IN_ITEMS.sink,
                   MOVE_IN_ITEMS.wall>>),
     OracleArray(<<MOVE_IN_ITEMS.unnamed>>)}

\* What generate_content may answer to the move-out prompt.
MoveOutAnswers ==
    {OracleRaises, OracleGarbage(GARBAGE_PLAIN),
     OracleArray(<<MOVE_OUT_ITEMS.hole>>),
     OracleArray(<<MOVE_OUT_ITEMS.rug, MOVE_OUT_ITEMS.hole>>),
     OracleArray(<<MOVE_OUT_ITEMS.stain, MOVE_OUT_ITEMS.door, MOVE_OUT_ITEMS.hole>>),
     OracleArray(<<MOVE_OUT_ITEMS.hole, MOVE_OUT_ITEMS.unnamed>>)}

\* What the oracle does in one audit: the states its file service reports
\* for the video (upload_file, then each get_file; what follows the settling
\* answer is what a further get_file would report), its answer to the prompt
\* and what delete_file does (it raises after the answers of `kept`).
AuditOracles(answers, kept) ==
    {[states |-> v, generate |-> OracleRaises, delete |-> "ok"] :
        v \in {<<"raises">>, <<"FAILED", "ACTIVE">>, <<"PROCESSING", "FAILED", "ACTIVE">>,
               <<"PROCESSING", "raises">>}}
    \cup
    {[states |-> <<"PROCESSING", "ACTIVE">>, generate |-> g, delete |-> "ok"] :
        g \in answers}
    \cup
    {[states |-> <<"ACTIVE">>, generate |-> g, delete |-> "raises"] : g \in kept}

\* unit_id of the audit requests
UnitIds == {"4B", "7C"}

\* The content types the audits accept for a video (main.py:241, 307).
ALLOWED_VIDEO_TYPES ==
    {"video/mp4", "video/quicktime", "video/x-msvideo", "video/webm", "video/mpeg"}

\* A baseline_text a caller of audit_video may hand in.
BASELINE_TEXT == <<"D","o","c","u","m","e","n","t","e","d"," ","1"," ","i","t","e","m","s",".">>

\* The calls of audit_video made without the endpoints: mode, baseline_text
\* and baseline_json, with what the oracle does.
AuditVideoCalls ==
    {[mode |-> "inspect", baseline_text |-> None, baseline_json |-> <<>>, oracle |-> o] :
        o \in AuditOracles({}, {})}
    \cup
    {[mode |-> "move-in", baseline_text |-> None, baseline_json |-> <<>>, oracle |-> o] :
        o \in AuditOracles({OracleArray(<<MOVE_IN_ITEMS.sink>>)}, {})}
    \cup
    {[mode |-> "move-out", baseline_text |-> t, baseline_json |-> j, oracle |-> o] :
        t \in {None, <<>>, BASELINE_TEXT}, j \in {<<>>, <<MOVE_IN_ITEMS.sink>>},
        o \in {a \in AuditOracles({OracleArray(<<MOVE_OUT_ITEMS.hole>>)}, {}) :
                  a.states \in {<<"PROCESSING", "ACTIVE">>, <<"FAILED", "ACTIVE">>}}}

\* unit_baselines: a new row (models.py:86-109; baseline_json defaults to []).
UnitBaseline(unit_id, move_in_video_summary) ==
    [unit_id |-> unit_id, move_in_video_summary |-> move_in_video_summary,
     baseline_json |-> <<>>]

\* baseline_description of audit_move_out (main.py:315-320): the summary of
\* the unit's row, None without a row.
BaselineDescription(rows, unit_id) ==
    IF \E r \in rows : r.unit_id = unit_id
    THEN (CHOOSE r \in rows : r.unit_id = unit_id).move_in_video_summary
    ELSE None

\* A save that adds a row whether the unit has one or not.
SaveBaseline_adds_row(rows, unit_id, summary) ==
    rows \cup {UnitBaseline(unit_id, summary)}

\* The save of audit_move_in once committed (main.py:262-278): the unit's row
\* gets the summary, and a unit without a row gets one.
SaveBaseline(rows, unit_id, summary) ==
    IF \E r \in rows : r.unit_id = unit_id
    THEN {IF r.unit_id = unit_id THEN [r EXCEPT !.move_in_video_summary = summary] ELSE r :
             r \in rows}
    ELSE rows \cup {UnitBaseline(unit_id, summary)}

-----------------------------------------------------------------------------
(* The output sanitizers on text (agent.py:859-902)                        *)
(*                                                                         *)
(* json.loads is modelled on the JSON the texts below are written in:      *)
(* arrays, objects, strings without escapes, integers and the literals. A  *)
(* parsed value is [type, v]: v is the sequence of an array's values, the  *)
(* function from keys to values of an object, the text of a string, of a   *)
(* number or of a literal.                                                 *)

\* The containers json.loads follows into one another before it raises
\* RecursionError (the interpreter's recursion limit, scaled down).
MaxNesting == 2

\* json.loads failed: JSONDecodeError or RecursionError
JsonFail(error) == [ok |-> FALSE, error |-> error]

\* The first position from i on that holds no JSON whitespace.
JsonSkip(t, i) ==
    CHOOSE j \in i..(Len(t) + 1) :
        /\ \A k \in i..(j - 1) : t[k] \in {" ", "\t", "\n", "\r"}
        /\ (j > Len(t) \/ t[j] \notin {" ", "\t", "\n", "\r"})

\* The literals of json.loads, NaN and the infinities among them.
JSON_LITERALS ==
    {<<"n","u","l","l">>, <<"t","r","u","e">>, <<"f","a","l","s","e">>,
     <<"N","a","N">>, <<"I","n","f","i","n","i","t","y">>,
     <<"-","I","n","f","i","n","i","t","y">>}

\* The string, literal or number that starts at t[i], i <= Len(t).
JsonScalar(t, i) ==
    LET closing == {j \in (i + 1)..Len(t) : t[j] = "\""}
        close == CHOOSE j \in closing : \A k \in closing : j <= k
        literals == {l \in JSON_LITERALS : StartsWith(SubSeq(t, i, Len(t)), l)}
        from == IF t[i] = "-" THEN i + 1 ELSE i
        upto == CHOOSE k \in from..(Len(t) + 1) :
                    /\ \A m \in from..(k - 1) : t[m] \in DIGITS
                    /\ (k > Len(t) \/ t[k] \notin DIGITS)
        end == IF from <= Len(t) /\ t[from] = "0" THEN from + 1 ELSE upto
    IN  IF t[i] = "\""
        THEN IF \/ closing = {}
                \/ \E m \in (i + 1)..(close - 1) : t[m] \in {"\\", "\n", "\t", "\r"}
             THEN JsonFail("JSONDecodeError")
             ELSE [ok |-> TRUE, next |-> close + 1,
                   v |-> [type |-> "string", v |-> SubSeq(t, i + 1, close - 1)]]
        ELSE IF literals # {}
        THEN [ok |-> TRUE, next |-> i + Len(CHOOSE l \in literals : TRUE),
              v |-> [type |-> "literal", v |-> CHOOSE l \in literals : TRUE]]
        ELSE IF end > from
        THEN [ok |-> TRUE, next |-> end,
              v |-> [type |-> "number", v |-> SubSeq(t, i, end - 1)]]
        ELSE JsonFail("JSONDecodeError")

RECURSIVE JsonValue(_, _, _), JsonItems(_, _, _, _), JsonMembers(_, _, _, _)

\* The value that starts at t[i], inside `depth` containers.
JsonValue(t, i, depth) ==
    LET open(j) ==
            IF depth >= MaxNesting THEN JsonFail("RecursionError")
            ELSE IF t[i] = "["
            THEN IF j <= Len(t) /\ t[j] = "]"
                 THEN [ok |-> TRUE, next |-> j + 1, v |-> [type |-> "array", v |-> <<>>]]
                 ELSE JsonItems(t, j, depth + 1, <<>>)
            ELSE IF j <= Len(t) /\ t[j] = "}"
                 THEN [ok |-> TRUE, next |-> j + 1, v |-> [type |-> "object", v |-> EmptyDict]]
                 ELSE JsonMembers(t, j, depth + 1, EmptyDict)
    IN  IF i > Len(t) THEN JsonFail("JSONDecodeError")
        ELSE IF t[i] \in {"[", "{"} THEN open(JsonSkip(t, i + 1))
        ELSE JsonScalar(t, i)

\* The array whose next item starts at t[i], acc holding the items before.
JsonItems(t, i, depth, acc) ==
    LET after(r, j) ==
            IF j > Len(t) THEN JsonFail("JSONDecodeError")
            ELSE IF t[j] = ","
            THEN JsonItems(t, JsonSkip(t, j + 1), depth, Append(acc, r.v))
            ELSE IF t[j] = "]"
            THEN [ok |-> TRUE, next |-> j + 1,
                  v |-> [type |-> "array", v |-> Append(acc, r.v)]]
            ELSE JsonFail("JSONDecodeError")
        item(r) == IF r.ok THEN after(r, JsonSkip(t, r.next)) ELSE r
    IN  item(JsonValue(t, i, depth))

\* The object whose next key starts at t[i], acc holding the members before
\* (of two members with one key the later one stays).
JsonMembers(t, i, depth, acc) ==
    LET after(k, r, j) ==
            IF j > Len(t) THEN JsonFail("JSONDecodeError")
            ELSE IF t[j] = ","
            THEN JsonMembers(t, JsonSkip(t, j + 1), depth, (k.v.v :> r.v) @@ acc)
            ELSE IF t[j] = "}"
            THEN [ok |-> TRUE, next |-> j + 1,
                  v |-> [type |-> "object", v |-> (k.v.v :> r.v) @@ acc]]
            ELSE JsonFail("JSONDecodeError")
        member(k, r) == IF r.ok THEN after(k, r, JsonSkip(t, r.next)) ELSE r
        value(k, c) ==
            IF c > Len(t) \/ t[c] # ":" THEN JsonFail("JSONDecodeError")
            ELSE member(k, JsonValue(t, JsonSkip(t, c + 1), depth))
        key(k) == IF k.ok THEN value(k, JsonSkip(t, k.next)) ELSE k
    IN  IF i > Len(t) \/ t[i] # "\"" THEN JsonFail("JSONDecodeError")
        ELSE key(JsonScalar(t, i))

\* json.loads(s): the value the whole of s holds between whitespace.
json_loads(s) ==
    LET whole(r) ==
            IF ~r.ok THEN r
            ELSE IF JsonSkip(s, r.next) <= Len(s) THEN JsonFail("JSONDecodeError")
            ELSE r
    IN  whole(JsonValue(s, JsonSkip(s, 1), 0))

\* MaintenanceAgent._parse_json_response on the text of an answer
\* (agent.py:859-875): what it raises ("None": it returns) and the value it
\* returns.
SanitizeObject(response_text) ==
    LET except(text, r) ==
            IF r.ok THEN [raised |-> "None", value |-> r.v]
            ELSE IF r.error = "JSONDecodeError"
            THEN [raised |-> "None",
                  value |-> [type |-> "object",
                             v |-> (<<"t","e","x","t">> :> [type |-> "string", v |-> text])]]
            ELSE [raised |-> r.error]
    IN  except(StripFences(response_text), json_loads(StripFences(response_text)))

\* text[start:end + 1] for the first "[" and the last "]" of the text
\* (agent.py:891-895)
ArraySpan(text) ==
    LET starts == {k \in DOMAIN text : text[k] = "["}
        ends == {k \in DOMAIN text : text[k] = "]"}
        start == CHOOSE k \in starts : \A j \in starts : k <= j
        end == CHOOSE k \in ends : \A j \in ends : k >= j
    IN  IF starts # {} /\ ends # {} /\ end > start THEN SubSeq(text, start, end) ELSE text

\* MaintenanceAgent._parse_json_array on the text of an answer
\* (agent.py:877-902)
SanitizeArray(response_text) ==
    LET except(r) ==
            IF r.ok
            THEN [raised |-> "None",
                  value |-> IF r.v.type = "array" THEN r.v
                            ELSE [type |-> "array", v |-> <<>>]]
            ELSE IF r.error = "JSONDecodeError"
            THEN [raised |-> "None", value |-> [type |-> "array", v |-> <<>>]]
            ELSE [raised |-> r.error]
    IN  except(json_loads(ArraySpan(StripFences(response_text))))

\* What an answer may hold between its wrappings.
JSON_BODIES ==
    {<<"[","{","\"","a","\"",":","1","}","]">>,
     <<"[","]">>,
     <<"[","1",","," ","2","]">>,
     <<"{","\"","a","\"",":","1","}">>,
     <<"{","\"","a","\"",":","[","1","]","}">>,
     <<"4","2">>,
     <<"n","u","l","l">>,
     <<"\"","x","\"">>,
     <<"o","o","p","s">>,
     <<"[","1",",","]">>,
     <<"[","[","[","[">>,
     <<"[","[","[","1","]","]","]">>,
     <<"[","[","1","]","]">>,
     <<"[","1","]"," ","a","n","d"," ","[","2","]">>,
     <<>>}

\* What an answer may put around it: nothing, a fence, prose, prose that
\* holds brackets of its own, whitespace.
WRAPPINGS ==
    {<<<<>>, <<>>>>,
     <<FENCE_JSON \o <<"\n">>, <<"\n">> \o FENCE>>,
     <<FENCE \o <<"\n">>, <<"\n">> \o FENCE>>,
     <<<<"H","e","r","e",":"," ">>, <<" ","o","k">>>>,
     <<<<"S","e","e"," ","[","1","]",":"," ">>, <<>>>>,
     <<<<" ">>, <<"\n">>>>}

\* The texts handed to the sanitizers.
SanitizerTexts == {w[1] \o body \o w[2] : body \in JSON_BODIES, w \in WRAPPINGS}

-----------------------------------------------------------------------------
(* The state machine                                                       *)

VARIABLES
    pc,               \* "idle", "returned" (an agent call returned), "session" (chat
                      \* requests), "audit" (audits) or "sanitized"
    api_key,          \* whether GEMINI_API_KEY is set
    call,             \* the agent call made last: its operation and arguments, and
                      \* the history list it was given as it is after the call
    oracle,           \* what the oracle would answer to the prompts of that call
    decision,         \* the decision that call returned
    oracle_calls,     \* the prompts that call sent to the oracle
    collected_info,   \* the caller's collected_info object after that call
    history,          \* the conversation_history the chat session holds
    turn,             \* the chat requests made
    response,         \* what the last chat request was answered
    ticket,           \* the row of ticket 1
    audits,           \* the audits made
    audit,            \* the audit made last: the request or call, what the oracle
                      \* did, what the agent returned and what was answered
    files,            \* the videos in the oracle's storage
    baselines,        \* the rows of unit_baselines
    moved_in,         \* for each unit, the result of the latest move-in audit
                      \* that succeeded (passed) and of the latest one saved
    sanitized,        \* the sanitizer call made last: the text and what came of it
    request,          \* the HTTP request served last: its endpoint and the content
                      \* type of its file ("None": no file)
    requests,         \* the requests served concurrently, in the order they came:
                      \* for each its worker process, its inputs and how far it is
    genai,            \* for each worker process, the module global genai
                      \* (agent.py:21) and the request that wrote it
    sdk               \* for each worker process, the key genai.configure was
                      \* handed last and the request that handed it

vars == <<pc, api_key, call, oracle, decision, oracle_calls, collected_info, history,
          turn, response, ticket, audits, audit, files, baselines, moved_in, sanitized,
          request, requests, genai, sdk>>

\* The state of the worker processes and of the requests they serve.
process == <<requests, genai, sdk>>

\* The worker processes of the server (gunicorn_conf.py:11).
Workers == {1, 2}

Init ==
    /\ pc = "idle"
    /\ api_key \in BOOLEAN
    /\ call = NoneDict
    /\ oracle = NoneDict
    /\ decision = NoneDict
    /\ oracle_calls = <<>>
    /\ collected_info = NoneDict
    /\ history = <<>>
    /\ turn = 0
    /\ response = NoneDict
    /\ ticket = [conversation_history |-> <<>>, risk_level |-> "Green", status |-> "Open"]
    /\ audits = 0
    /\ audit = NoneDict
    /\ files = {}
    /\ baselines = {}
    /\ moved_in = [u \in UnitIds |-> [passed |-> NoneDict, saved |-> NoneDict]]
    /\ sanitized = NoneDict
    /\ request = NoneDict
    /\ requests = <<>>
    /\ genai = [w \in Workers |-> [value |-> "None", by |-> 0]]
    /\ sdk = [w \in Workers |-> [api_key |-> "None", by |-> 0]]

\* An agent call returns.
Returns(args, result) ==
    /\ call' = [history_after |-> result.history] @@ args
    /\ decision' = result.decision
    /\ oracle_calls' = result.oracle_calls
    /\ collected_info' = result.collected_info

\* agent = MaintenanceAgent(); agent.triage(history, image_path)
Triage ==
    /\ pc = "idle"
    /\ api_key
    /\ \E c \in TriageCalls :
          /\ oracle' = c.oracle
          /\ Returns([op |-> "triage", history |-> c.history, image |-> c.image_path],
                     triage(c.history, c.image_path, c.oracle))
    /\ pc' = "returned"
    /\ UNCHANGED process
    /\ UNCHANGED <<api_key, history, turn, response, ticket>>
    /\ UNCHANGED <<audits, audit, files, baselines, moved_in, sanitized, request>>

\* agent = MaintenanceAgent(); agent.triage_with_image_bytes(history, image_data,
\*     escalation_mode=..., collected_info=...)
TriageWithImageBytes ==
    /\ pc = "idle"
    /\ api_key
    /\ \E c \in TriageWithImageBytesCalls :
          /\ oracle' = c.oracle
          /\ Returns([op |-> "triage_with_image_bytes", history |-> c.history,
                      image |-> c.image_data, escalation_mode |-> c.escalation_mode,
                      collected_info |-> c.collected_info],
                     triage_with_image_bytes(c.history, c.image_data, c.escalation_mode,
                                             c.collected_info, c.oracle))
    /\ pc' = "returned"
    /\ UNCHANGED process
    /\ UNCHANGED <<api_key, history, turn, response, ticket>>
    /\ UNCHANGED <<audits, audit, files, baselines, moved_in, sanitized, request>>

\* chat once the agent has returned (main.py:190-216).
ChatReturns(req, args, chat_history, returned) ==
    LET result == returned.decision
        replied == IF Truthy(Get(result, "text", None))
                   THEN Append(chat_history, AssistantTurn(result.text))
                   ELSE chat_history
    IN  /\ oracle' = req.oracle
        /\ Returns(args, returned)
        /\ history' = replied
        /\ ticket' = IF req.ticket_id = 1
                     THEN UpdateTicket(ticket, replied, result)
                     ELSE ticket
        /\ response' = ChatResponse(result, replied)

\* chat answers with an HTTPException before the agent is called.
ChatRaises(exception) ==
    /\ response' = exception
    /\ call' = NoneDict /\ oracle' = NoneDict /\ decision' = NoneDict
    /\ oracle_calls' = <<>> /\ collected_info' = NoneDict
    /\ UNCHANGED <<history, ticket>>

\* POST /chat with the history the session holds (main.py:137-221).
Chat ==
    /\ pc \in {"idle", "session"}
    /\ turn < MaxTurns
    /\ pc' = "session"
    /\ turn' = turn + 1
    /\ UNCHANGED process
    /\ UNCHANGED <<api_key, audits, audit, files, baselines, moved_in, sanitized>>
    /\ \E req \in ChatRequests :
          /\ request' = [endpoint |-> "/chat", content_type |-> req.image,
                          message |-> req.message, conversation_history |-> history]
          /\ LET has_image    == req.image # "None"
                 chat_history == ChatHistory(history, req.message, has_image)
                 args == [op |-> "triage_with_image_bytes", history |-> chat_history,
                          image |-> IF has_image THEN "bytes" ELSE "None",
                          escalation_mode |-> FALSE, collected_info |-> NoneDict]
             IN  IF has_image /\ req.image \notin ALLOWED_TYPES
                 THEN \* rejected before the agent is built (main.py:171-177)
                      ChatRaises(HTTPException(400, "Invalid image type"))
                 ELSE IF ~api_key
                 THEN \* MaintenanceAgent() raises ValueError (agent.py:126-127)
                      ChatRaises(HTTPException(500, "GEMINI_API_KEY not configured"))
                 ELSE ChatReturns(req, args, chat_history,
                          triage_with_image_bytes(chat_history, args.image, FALSE,
                                                  NoneDict, req.oracle))

\* An audit request or call ends: what is kept of it. The video the audit
\* left in the oracle's storage is named by the number of the audit.
AuditEnds(op, unit_id, o, pass, answer, rows, passes) ==
    /\ audit' = [op |-> op, unit_id |-> unit_id, oracle |-> o, pass |-> pass,
                 response |-> answer]
    /\ files' = IF pass # NoneDict /\ pass.stored THEN files \cup {audits + 1} ELSE files
    /\ baselines' = rows
    /\ moved_in' = passes

\* An audit_move_in that saves whatever the pass returned.
MoveInReturns_saves_errors(unit_id, o, commit, pass, saving) ==
    AuditEnds("/audit/move-in", unit_id, o, pass, pass.result,
        SaveBaseline(baselines, unit_id, Get(pass.result, "summary", <<>>)), moved_in)

\* audit_move_in once the agent has returned (main.py:260-286): commit tells
\* what the database does with the save.
MoveInReturns(unit_id, o, commit, pass, saving) ==
    AuditEnds("/audit/move-in", unit_id, o, pass,
        IF ~saving THEN pass.result
        ELSE IF commit = "ok" THEN [saved_to_database |-> TRUE] @@ pass.result
        ELSE [saved_to_database |-> FALSE, database_error |-> "commit"] @@ pass.result,
        IF saving /\ commit = "ok"
        THEN SaveBaseline(baselines, unit_id, pass.result.summary)
        ELSE baselines,
        IF ~pass.result.success THEN moved_in
        ELSE [moved_in EXCEPT ![unit_id] =
                 [passed |-> pass.result,
                  saved |-> IF saving /\ commit = "ok" THEN pass.result ELSE @.saved]])

\* POST /audit/move-in (main.py:226-291)
AuditMoveIn ==
    /\ pc \in {"idle", "audit"}
    /\ audits < MaxAudits
    /\ pc' = "audit"
    /\ audits' = audits + 1
    /\ UNCHANGED process
    /\ UNCHANGED <<api_key, call, oracle, decision, oracle_calls, collected_info, history,
                   turn, response, ticket, sanitized>>
    /\ \E unit_id \in UnitIds, content_type \in {"video/mp4", "image/png"} :
          /\ request' = [endpoint |-> "/audit/move-in", content_type |-> content_type]
          /\ IF content_type \notin ALLOWED_VIDEO_TYPES
             THEN AuditEnds("/audit/move-in",    unit_id, NoneDict, NoneDict,
                      HTTPException(400, "Invalid video type"), baselines, moved_in)
             ELSE IF ~api_key
             THEN \* MaintenanceAgent() raises ValueError (agent.py:126-127)
                  AuditEnds("/audit/move-in", unit_id, NoneDict, NoneDict,
                      HTTPException(500, "GEMINI_API_KEY not configured"),
                      baselines, moved_in)
             ELSE \E o \in AuditOracles(MoveInAnswers, {OracleArray(<<MOVE_IN_ITEMS.sink>>)}) :
                  \E rooms \in Orders(RoomsOf(_parse_json_array(o.generate))) :
                  \E commit \in IF audit_video("move-in", None, <<>>, o, rooms).result.success
                                 THEN {"ok", "raises"} ELSE {"ok"} :
                      MoveInReturns(unit_id, o, commit,
                          audit_video("move-in", None, <<>>, o, rooms),
                          /\ audit_video("move-in", None, <<>>, o, rooms).result.success
                          /\ Truthy(audit_video("move-in", None, <<>>, o, rooms).result.summary))

\* POST /audit/move-out (main.py:294-346)
AuditMoveOut ==
    /\ pc \in {"idle", "audit"}
    /\ audits < MaxAudits
    /\ pc' = "audit"
    /\ audits' = audits + 1
    /\ UNCHANGED process
    /\ UNCHANGED <<api_key, call, oracle, decision, oracle_calls, collected_info, history,
                   turn, response, ticket, sanitized>>
    /\ \E unit_id \in UnitIds, content_type \in {"video/mp4", "image/png"} :
          /\ request' = [endpoint |-> "/audit/move-out", content_type |-> content_type]
          /\ IF content_type \notin ALLOWED_VIDEO_TYPES
             THEN AuditEnds("/audit/move-out",    unit_id, NoneDict, NoneDict,
                      HTTPException(400, "Invalid video type"), baselines, moved_in)
             ELSE IF ~Truthy(BaselineDescription(baselines, unit_id))
             THEN AuditEnds("/audit/move-out", unit_id, NoneDict, NoneDict,
                      HTTPException(404, "No move-in baseline found"), baselines, moved_in)
             ELSE IF ~api_key
             THEN AuditEnds("/audit/move-out", unit_id, NoneDict, NoneDict,
                      HTTPException(500, "GEMINI_API_KEY not configured"),
                      baselines, moved_in)
             ELSE \E o \in AuditOracles(MoveOutAnswers, {OracleArray(<<MOVE_OUT_ITEMS.hole>>)}) :
                      AuditEnds("/audit/move-out", unit_id, o,
                          audit_video("move-out", BaselineDescription(baselines, unit_id),
                                      <<>>, o, <<>>),
                          audit_video("move-out", BaselineDescription(baselines, unit_id),
                                      <<>>, o, <<>>).result,
                          baselines, moved_in)

\* agent = MaintenanceAgent(); agent.audit_video(video_path, mode, baseline_text,
\*     baseline_json)
AuditVideo ==
    /\ pc \in {"idle", "audit"}
    /\ api_key
    /\ audits < MaxAudits
    /\ pc' = "audit"
    /\ audits' = audits + 1
    /\ UNCHANGED process
    /\ UNCHANGED <<api_key, call, oracle, decision, oracle_calls, collected_info, history,
                   turn, response, ticket, sanitized>>
    /\ UNCHANGED request
    /\ \E c \in AuditVideoCalls :
          AuditEnds("audit_video",
              [mode |-> c.mode, baseline_text |-> c.baseline_text,
               baseline_json |-> c.baseline_json],
              c.oracle,
              audit_video(c.mode, c.baseline_text, c.baseline_json, c.oracle,
                          <<MOVE_IN_ITEMS.sink.room>>),
              audit_video(c.mode, c.baseline_text, c.baseline_json, c.oracle,
                          <<MOVE_IN_ITEMS.sink.room>>).result,
              baselines, moved_in)

\* A sanitizer is handed the text of an answer.
Sanitizes(op, text, outcome) ==
    /\ pc' = "sanitized"
    /\ sanitized' = [op |-> op, text |-> text] @@ outcome
    /\ UNCHANGED process
    /\ UNCHANGED <<api_key, call, oracle, decision, oracle_calls, collected_info, history,
                   turn, response, ticket, audits, audit, files, baselines, moved_in,
                   request>>

\* self._parse_json_response(response.text)
ParseJsonResponse ==
    /\ pc = "idle"
    /\ \E text \in SanitizerTexts :
          Sanitizes("_parse_json_response", text, SanitizeObject(text))

\* self._parse_json_array(response.text)
ParseJsonArray ==
    /\ pc = "idle"
    /\ \E text \in SanitizerTexts :
          Sanitizes("_parse_json_array", text, SanitizeArray(text))

Next ==
    \/ Triage \/ TriageWithImageBytes \/ Chat
    \/ AuditMoveIn \/ AuditMoveOut \/ AuditVideo
    \/ ParseJsonResponse \/ ParseJsonArray

Spec == Init /\ [][Next]_vars

-----------------------------------------------------------------------------
(* Requests served concurrently (main.py, gunicorn_conf.py)                *)
(*                                                                         *)
(* A worker process runs one event loop, and a handler runs from its one   *)
(* await, the read of the uploaded file, to its return without yielding:   *)
(* the agent and the database are called synchronously. The requests of    *)
(* one worker are therefore served one after the other, while those of     *)
(* different workers interleave at every call. The module global genai and *)
(* the SDK's configuration belong to the worker; the database is shared.   *)

\* the requests in flight, at most
MaxRequests == 2

\* The requests that come in: chat requests with a history, move-in audits
\* of a unit.
Arrivals ==
    {[endpoint |-> "/chat", unit_id |-> "None", history |-> <<UserTurn(SAY_GAS)>>]}
    \cup {[endpoint |-> "/audit/move-in", unit_id |-> u, history |-> <<>>] : u \in UnitIds}

\* What the oracle may answer a chat request and a move-in audit.
ConcurrentAnswers(endpoint) ==
    IF endpoint = "/chat" THEN {QUESTION_ANSWER, OracleRaises}
    ELSE {OracleArray(<<MOVE_IN_ITEMS.sink>>), OracleGarbage(GARBAGE_PLAIN), OracleRaises}

\* A request that has come in and waits for its file to be read.
NewRequest(w, a) ==
    [worker |-> w, endpoint |-> a.endpoint, unit_id |-> a.unit_id, history |-> a.history,
     pc |-> "read", video |-> "None", polled |-> FALSE, answer |-> NoneDict,
     existing |-> FALSE, shared |-> {}, result |-> NoneDict,
     response |-> NoneDict]

\* The worker of request r is free to run it: none of its other requests is
\* between its await and its return.
MayRun(r) ==
    /\ r \in DOMAIN requests
    /\ \A q \in DOMAIN requests :
          (q # r /\ requests[q].worker = requests[r].worker)
          => requests[q].pc \in {"read", "done"}

\* A _get_genai that hands out the global as it finds it.
_get_genai_without_import(global, r) == global

\* _get_genai (agent.py:23-29) called for request r: the global afterwards,
\* whose value is the module handed out.
_get_genai(global, r) ==
    IF global.value = "None" THEN [value |-> "module", by |-> r] ELSE global

\* genai.configure(api_key=self.api_key) (agent.py:137, 149), for request r.
Configure(r) == [api_key |-> "GEMINI_API_KEY", by |-> r]

\* The process-wide state request r touches that another request wrote:
\* the global it reads in _get_genai, and the configuration it overwrites
\* when configures is true.
SharedWith(r, configures) ==
    LET w == requests[r].worker
    IN  (IF genai[w].by \notin {0, r} THEN {"genai"} ELSE {})
        \cup (IF configures /\ sdk[w].by \notin {0, r} THEN {"genai.configure"} ELSE {})

\* The worker's state once request r has called _get_genai, and configure
\* when configures is true.
Touches(r, configures) ==
    LET w == requests[r].worker
    IN  /\ genai' = [genai EXCEPT ![w] = _get_genai(@, r)]
        /\ sdk' = IF configures THEN [sdk EXCEPT ![w] = Configure(r)] ELSE sdk

\* What calling an attribute of the handle raises when the handle is None.
NO_MODULE == "'NoneType' object has no attribute"

\* A request comes in (main.py:137, 226).
Arrive ==
    /\ Len(requests) < MaxRequests
    /\ \E w \in Workers, a \in Arrivals :
          requests' = Append(requests, NewRequest(w, a))
    /\ UNCHANGED <<genai, sdk>>
    /\ UNCHANGED <<pc, api_key, call, oracle, decision, oracle_calls, collected_info, history,
                   turn, response, ticket, audits, audit, files, baselines, moved_in,
                   sanitized, request>>

\* What a step of a request leaves alone.
RequestFrame ==
    UNCHANGED <<pc, api_key, call, oracle, decision, oracle_calls, collected_info, history,
                turn, response, ticket, audits, audit, files, moved_in, sanitized, request>>

\* chat from the agent's construction to its return (main.py:185-221), for a
\* request without image and ticket: the model is loaded and configured when
\* the call reaches the oracle.
ChatServes(r) ==
    /\ MayRun(r)
    /\ requests[r].endpoint = "/chat"
    /\ requests[r].pc = "read"
    /\ RequestFrame
    /\ UNCHANGED baselines
    /\ IF ~api_key
       THEN /\ requests' = [requests EXCEPT ![r].pc = "done",
                               ![r].response =
                                   HTTPException(500, "GEMINI_API_KEY not configured")]
            /\ UNCHANGED <<genai, sdk>>
       ELSE \E a \in ConcurrentAnswers("/chat") :
               LET returned == triage_with_image_bytes(requests[r].history, "None", FALSE,
                                                       NoneDict, Oracle(a, OracleRaises))
                   asks == returned.oracle_calls # <<>>
                   handle == _get_genai(genai[requests[r].worker], r).value
                   result == IF asks /\ handle # "module"
                             THEN ErrorDecision(NO_MODULE, EmptyDict)
                             ELSE returned.decision
               IN  /\ requests' = [requests EXCEPT
                          ![r].pc = "done",
                          ![r].answer = a,
                          ![r].shared = IF asks THEN SharedWith(r, TRUE) ELSE {},
                          ![r].result = result,
                          ![r].response = ChatResponse(result, requests[r].history)]
                   /\ IF asks THEN Touches(r, TRUE) ELSE UNCHANGED <<genai, sdk>>

\* A loop that goes on until the video is ACTIVE.
Polling_until_active(state) == state # "ACTIVE"

\* The loop condition of _upload_video (agent.py:832).
Polling(state) == state = "PROCESSING"

\* What upload_file and get_file may report: a state of the video, or the
\* call raises.
VIDEO_STATES == {"PROCESSING", "ACTIVE", "FAILED", "raises"}

\* What the move-in pass of a request returns (agent.py:669-717), given how
\* the upload ended and what the oracle answered.
PassResult(video, polled, answer) ==
    IF video = NO_MODULE THEN AuditError(NO_MODULE)
    ELSE IF video = "raises" THEN AuditError(IF polled THEN "get_file" ELSE "upload_file")
    ELSE IF video = "FAILED" THEN AuditError("Video processing failed")
    ELSE IF answer.kind = "raises" THEN AuditError("generate_content")
    ELSE MoveInReport(_parse_json_array(answer),
                      CHOOSE p \in Orders(RoomsOf(_parse_json_array(answer))) : TRUE,
                      SelectSeq(_parse_json_array(answer), HasIssue))

\* Request r once upload_file or get_file has reported `video`: the loop of
\* _upload_video goes on while the video is processed (agent.py:832-834); a
\* call that raises and the state FAILED (agent.py:836-837) end the pass with
\* an error result, which audit_move_in returns (main.py:286); any other
\* state has _upload_video return the video.
Reported(request_r, video, polled) ==
    IF video \notin {"raises", NO_MODULE} /\ Polling(video)
    THEN [request_r EXCEPT !.video = video, !.polled = polled, !.pc = "polling"]
    ELSE IF video \in {"raises", NO_MODULE, "FAILED"}
    THEN [request_r EXCEPT !.video = video, !.polled = polled, !.pc = "done",
                           !.result = PassResult(video, polled, NoneDict),
                           !.response = PassResult(video, polled, NoneDict)]
    ELSE [request_r EXCEPT !.video = video, !.polled = polled, !.pc = "uploaded"]

\* audit_move_in from the agent's construction to the return of upload_file
\* (main.py:253, agent.py:819-829).
Upload(r) ==
    /\ MayRun(r)
    /\ requests[r].endpoint = "/audit/move-in"
    /\ requests[r].pc = "read"
    /\ RequestFrame
    /\ UNCHANGED baselines
    /\ IF ~api_key
       THEN /\ requests' = [requests EXCEPT ![r].pc = "done",
                               ![r].response =
                                   HTTPException(500, "GEMINI_API_KEY not configured")]
            /\ UNCHANGED <<genai, sdk>>
       ELSE /\ Touches(r, FALSE)
            /\ \E s \in VIDEO_STATES :
                  requests' = [requests EXCEPT ![r] =
                      Reported([@ EXCEPT !.shared = SharedWith(r, FALSE)],
                               IF _get_genai(genai[requests[r].worker], r).value = "module"
                               THEN s ELSE NO_MODULE,
                               FALSE)]

\* One turn of the loop of _upload_video (agent.py:832-834): get_file reports
\* state s.
Polls(r, s) ==
    /\ requests' = [requests EXCEPT ![r] = Reported(@, s, TRUE)]
    /\ RequestFrame
    /\ UNCHANGED <<baselines, genai, sdk>>

\* get_file reports that the video is still processed.
PollProcessing(r) ==
    /\ r \in DOMAIN requests
    /\ requests[r].pc = "polling"
    /\ Polls(r, "PROCESSING")

\* get_file reports another state, or raises.
PollSettles(r) ==
    /\ r \in DOMAIN requests
    /\ requests[r].pc = "polling"
    /\ \E s \in VIDEO_STATES \ {"PROCESSING"} : Polls(r, s)

\* _audit_move_in once _upload_video has returned the video (agent.py:671-717):
\* the model is loaded and configured, the oracle answers the prompt and the
\* video is deleted; then audit_move_in goes to the save when the pass
\* succeeded with a summary, else it returns (main.py:260-286).
Generate(r) ==
    /\ r \in DOMAIN requests
    /\ requests[r].pc = "uploaded"
    /\ RequestFrame
    /\ UNCHANGED baselines
    /\ Touches(r, TRUE)
    /\ \E a \in ConcurrentAnswers("/audit/move-in") :
          requests' = [requests EXCEPT
              ![r].answer = a,
              ![r].shared = @ \cup SharedWith(r, TRUE),
              ![r].result = PassResult(requests[r].video, requests[r].polled, a),
              ![r].response = IF PassResult(requests[r].video, requests[r].polled, a).success
                              THEN NoneDict
                              ELSE PassResult(requests[r].video, requests[r].polled, a),
              ![r].pc = IF PassResult(requests[r].video, requests[r].polled, a).success
                        THEN "save" ELSE "done"]

\* db.query(UnitBaseline).filter(UnitBaseline.unit_id == unit_id).first()
\* (main.py:264)
Query(r) ==
    /\ r \in DOMAIN requests
    /\ requests[r].pc = "save"
    /\ requests' = [requests EXCEPT
           ![r].pc = "commit",
           ![r].existing = \E row \in baselines : row.unit_id = requests[r].unit_id]
    /\ RequestFrame
    /\ UNCHANGED <<baselines, genai, sdk>>

\* A commit on a table whose unit_id is not unique.
DbCommit_without_unique(rows, unit_id, summary, existing) ==
    [rows |-> IF existing THEN SaveBaseline(rows, unit_id, summary)
              ELSE rows \cup {UnitBaseline(unit_id, summary)},
     raised |-> FALSE]

\* db.commit() (main.py:266-278) of the update of the row found, or of the
\* insert of a new one: unit_id is unique (models.py:94), so the insert of a
\* second row for the unit raises.
DbCommit(rows, unit_id, summary, existing) ==
    IF existing THEN [rows |-> SaveBaseline(rows, unit_id, summary), raised |-> FALSE]
    ELSE IF \E row \in rows : row.unit_id = unit_id
    THEN [rows |-> rows, raised |-> TRUE]
    ELSE [rows |-> rows \cup {UnitBaseline(unit_id, summary)}, raised |-> FALSE]

\* The save of audit_move_in from the commit to the return (main.py:266-286).
Commit(r) ==
    /\ r \in DOMAIN requests
    /\ requests[r].pc = "commit"
    /\ baselines' = DbCommit(baselines, requests[r].unit_id, requests[r].result.summary,
                             requests[r].existing).rows
    /\ requests' = [requests EXCEPT
           ![r].pc = "done",
           ![r].response =
               IF DbCommit(baselines, requests[r].unit_id, requests[r].result.summary,
                           requests[r].existing).raised
               THEN [saved_to_database |-> FALSE, database_error |-> "IntegrityError"]
                    @@ requests[r].result
               ELSE [saved_to_database |-> TRUE] @@ requests[r].result]
    /\ RequestFrame
    /\ UNCHANGED <<genai, sdk>>

NextConcurrent ==
    \/ Arrive
    \/ \E r \in 1..MaxRequests : ChatServes(r)
    \/ \E r \in 1..MaxRequests : Upload(r)
    \/ \E r \in 1..MaxRequests : PollProcessing(r)
    \/ \E r \in 1..MaxRequests : PollSettles(r)
    \/ \E r \in 1..MaxRequests : Generate(r)
    \/ \E r \in 1..MaxRequests : Query(r)
    \/ \E r \in 1..MaxRequests : Commit(r)

Concurrent == Init /\ [][NextConcurrent]_vars

\* The next call of an audit, whichever request it serves; a report that the
\* video is still processed is not among them.
Proceeds ==
    \E r \in 1..MaxRequests :
        \/ Upload(r) \/ PollSettles(r)
        \/ Generate(r) \/ Query(r) \/ Commit(r)

\* An audit that can go on does (its code is synchronous and the workers
\* keep running), and the oracle does not report PROCESSING for ever.
FairConcurrent == Concurrent /\ WF_vars(Proceeds)

-----------------------------------------------------------------------------
(* What the properties speak of                                            *)

\* An agent call has returned a decision.
Returned == call # NoneDict

\* The latest user turn holds a give-up phrase, whatever the case of its letters.
SaysGiveUp(h) ==
    \E p \in DOMAIN GIVE_UP_PHRASES :
        Contains(Lower(LatestUserMessage(h)), GIVE_UP_PHRASES[p])

\* The call is one the escalation sub-flow answers (agent.py:421-426).
EscalationApplies(c) ==
    /\ c.op = "triage_with_image_bytes"
    /\ (c.escalation_mode \/ SaysGiveUp(c.history))

\* The triage prompt was sent to the oracle.
OracleConsulted(calls) == \E k \in DOMAIN calls : calls[k].prompt = "triage"

\* The decision is one of the escalation sub-flow: a follow-up, or the
\* collector's ticket with its vendor summary.
FromEscalation(d) ==
    \/ d.action = "Escalate" /\ d.escalation_mode = TRUE
    \/ d.action = "CREATE_TICKET" /\ "ticket_summary" \in DOMAIN d

\* The oracle's answer to the triage prompt is a JSON object with this action.
OracleSays(action) ==
    /\ oracle.triage.kind = "object"
    /\ Get(oracle.triage.obj, "action", "None") = action

\* The slots of filled_slots that are null or absent, by their place in SLOTS.
OpenSlots(filled_slots) ==
    {k \in DOMAIN SLOTS : Get(filled_slots, SLOTS[k], None) = None}

\* The word by which a question names each slot (agent.py:51-57).
SLOT_WORD ==
    [tenant_name |-> <<"n","a","m","e">>, unit |-> <<"u","n","i","t">>,
     issue |-> <<"i","s","s","u","e">>,
     severity |-> <<"s","e","v","e","r","i","t","y">>,
     location |-> <<"l","o","c","a","t","i","o","n">>,
     access |-> <<"a","c","c","e","s","s">>,
     contact |-> <<"c","o","n","t","a","c","t">>]

\* The slots a text asks about, by their place in SLOTS.
AskedSlots(text) ==
    {k \in DOMAIN SLOTS : Contains(Lower(Format(text)), SLOT_WORD[SLOTS[k]])}

\* The user confirms: "yes, correct, looks good" (agent.py:74).
Affirms(text) ==
    \E w \in {<<"y","e","s">>, <<"c","o","r","r","e","c","t">>,
              <<"l","o","o","k","s"," ","g","o","o","d">>} :
        Contains(Lower(text), w)

-----------------------------------------------------------------------------
(* The properties                                                          *)

\* C1 - the claim under check: a call of triage_with_image_bytes with
\* escalation_mode false whose latest user turn holds a give-up phrase, in
\* any case of letters, is answered by the escalation sub-flow (Escalate with
\* escalation_mode true, or the collector's CREATE_TICKET) and the oracle's
\* slot-filling answer is never asked for, whatever it would have been.
C1_GiveUpTriggersEscalation ==
    (/\ Returned
     /\ call.op = "triage_with_image_bytes"
     /\ ~call.escalation_mode
     /\ SaysGiveUp(call.history))
    => /\ FromEscalation(decision)
       /\ ~OracleConsulted(oracle_calls)

\* C1 - reached: the latest user turn gives up in capitals, the oracle would
\* have declared an emergency, and the follow-up of the escalation is returned.
C1_Witness ==
    /\ Returned
    /\ call.op = "triage_with_image_bytes"
    /\ ~call.escalation_mode
    /\ LatestUserMessage(call.history) = SAY_GIVE_UP
    /\ OracleSays("EMERGENCY")
    /\ decision.action = "Escalate"

\* C2, as amended: when the oracle (asked or not) classifies the turn as
\* EMERGENCY, the decision is EMERGENCY whatever the slots hold, unless the
\* escalation sub-flow applies (escalation_mode set, or a give-up phrase in
\* the latest user turn): then the oracle is not asked and the decision is the
\* escalation's.
C2_EmergencyUnlessEscalation ==
    (Returned /\ OracleSays("EMERGENCY"))
    => IF EscalationApplies(call)
       THEN FromEscalation(decision) /\ ~OracleConsulted(oracle_calls)
       ELSE decision.action = "EMERGENCY" /\ OracleConsulted(oracle_calls)

\* C2 - reached: the oracle declares an emergency while slots are open, no
\* escalation applies, and the decision is EMERGENCY.
C2_Witness ==
    /\ Returned
    /\ OracleSays("EMERGENCY")
    /\ ~EscalationApplies(call)
    /\ OpenSlots(decision.filled_slots) # {}
    /\ decision.action = "EMERGENCY"

\* C2, as the claim states it: when the oracle classifies the turn as
\* EMERGENCY the decision is EMERGENCY, also with a give-up phrase in the
\* latest user turn or escalation_mode set.
C2_EmergencyOverridesAll ==
    (Returned /\ OracleSays("EMERGENCY")) => decision.action = "EMERGENCY"

\* C3, as the claim states it: once a chat turn has triggered escalation and
\* a field is still missing, the next turn sent through the chat endpoint is
\* answered by the escalation collector, with the fields collected so far.
C3_EscalationPersists ==
    [][(/\ pc = "session"
        /\ decision # NoneDict
        /\ decision.action = "Escalate"
        /\ decision' # NoneDict)
       => /\ FromEscalation(decision')
          /\ ~OracleConsulted(oracle_calls')]_vars

\* C4 - the claim under check: in escalation mode the merged fields decide,
\* and every one of the four cases is answered by the escalation sub-flow:
\* both held, CREATE_TICKET with the vendor summary; one missing, a follow-up
\* asking for that one only; both missing, a follow-up asking for both.
C4_FourCombinations ==
    (Returned /\ EscalationApplies(call))
    => LET info == decision.contact_info
           has_phone == Truthy(Get(info, "phone", None))
           has_access == Truthy(Get(info, "access", None))
       IN  /\ ~OracleConsulted(oracle_calls)
           /\ (has_phone /\ has_access) =>
                 /\ decision.action = "CREATE_TICKET"
                 /\ "ticket_summary" \in DOMAIN decision
                 /\ decision.ticket_summary # <<>>
                 /\ Contains(decision.text, decision.ticket_summary)
           /\ (~has_phone /\ has_access) =>
                 /\ decision.action = "Escalate"
                 /\ EndsWith(decision.text, TEXT_ASK_PHONE)
                 /\ ~Contains(decision.text, TEXT_ASK_ACCESS)
           /\ (has_phone /\ ~has_access) =>
                 /\ decision.action = "Escalate"
                 /\ EndsWith(decision.text, TEXT_ASK_ACCESS)
                 /\ ~Contains(decision.text, TEXT_ASK_PHONE)
           /\ (~has_phone /\ ~has_access) =>
                 /\ decision.action = "Escalate"
                 /\ decision.text = TEXT_NEED_BOTH

\* C4 - reached: escalation with the access held and the phone missing, which
\* is asked for.
C4_Witness ==
    /\ Returned
    /\ EscalationApplies(call)
    /\ Truthy(Get(decision.contact_info, "access", None))
    /\ ~Truthy(Get(decision.contact_info, "phone", None))
    /\ EndsWith(decision.text, TEXT_ASK_PHONE)

\* C5 - the claim under check: in escalation mode a field collected before
\* and not detected again in the user turns is kept; with collected_info
\* {phone: "555-123-4567", access: null} and nothing detected the decision
\* asks for the access only and its contact_info.phone is "555-123-4567".
C5_CollectedFieldPreserved ==
    (Returned /\ EscalationApplies(call) /\ call.collected_info # NoneDict)
    => LET detected == _detect_escalation_info(call.history)
           before == call.collected_info
       IN  /\ ("phone" \in DOMAIN before /\ ~detected.has_phone)
                 => Get(decision.contact_info, "phone", None) = before.phone
           /\ ("access" \in DOMAIN before /\ ~detected.has_access)
                 => Get(decision.contact_info, "access", None) = before.access
           /\ (/\ before = [phone |-> PHONE_ON_FILE, access |-> None]
               /\ ~detected.has_phone /\ ~detected.has_access)
                 => /\ decision.action = "Escalate"
                    /\ decision.text = TEXT_GOT_NUMBER \o PHONE_ON_FILE \o TEXT_ASK_ACCESS
                    /\ decision.contact_info.phone = PHONE_ON_FILE

\* C5 - reached: the scenario of the claim, with a user turn that holds
\* neither a phone nor an access.
C5_Witness ==
    /\ Returned
    /\ EscalationApplies(call)
    /\ call.collected_info = [phone |-> PHONE_ON_FILE, access |-> None]
    /\ call.history = <<UserTurn(SAY_GIVE_UP)>>
    /\ decision.contact_info.phone = PHONE_ON_FILE
    /\ EndsWith(decision.text, TEXT_ASK_ACCESS)

\* C6, as the claim states it: in the slot-filling flow a decision with a
\* slot null or absent, and no emergency, is a QUESTION with missing_info not
\* empty; never CONFIRM or CREATE_TICKET.
C6_QuestionWhileSlotOpen ==
    (/\ Returned
     /\ ~EscalationApplies(call)
     /\ decision.action # "EMERGENCY"
     /\ OpenSlots(decision.filled_slots) # {})
    => /\ decision.action = "QUESTION"
       /\ decision.missing_info # <<>>

\* C7, as the claim states it: in the slot-filling flow CREATE_TICKET is
\* returned only on the turn after a CONFIRM decision, with a latest user
\* turn that affirms.
C7_TicketOnlyAfterConfirm ==
    [][(/\ decision' # NoneDict
        /\ decision'.action = "CREATE_TICKET"
        /\ OracleConsulted(oracle_calls'))
       => /\ decision # NoneDict
          /\ decision.action = "CONFIRM"
          /\ Affirms(LatestUserMessage(call'.history))]_vars

\* C8, as the claim states it: a QUESTION decision asks about one slot only,
\* the earliest open one in the order of SLOTS.
C8_OneQuestionEarliestSlot ==
    (Returned /\ decision.action = "QUESTION")
    => LET open == OpenSlots(decision.filled_slots)
           asked == AskedSlots(decision.text)
       IN  \E k \in open : (\A j \in open : k <= j) /\ asked = {k}

\* C9, as the claim states it: a decision with action EMERGENCY has risk Red.
C9_EmergencyIsRed ==
    (Returned /\ decision.action = "EMERGENCY") => decision.risk = "Red"

\* C10, as the claim states it: the action of every decision of triage and of
\* triage_with_image_bytes is one of QUESTION, CONFIRM, CREATE_TICKET and
\* EMERGENCY.
C10_ActionInContract ==
    Returned => decision.action \in {"QUESTION", "CONFIRM", "CREATE_TICKET", "EMERGENCY"}

\* The text has the shape of a contact: a phone number as PHONE_PATTERN reads
\* it, or an email address (agent.py:290).
ContactShaped(text) ==
    \/ Len(ReSearchGroup(ReNothing, PHONE_PATTERN, ReNothing, text)) > 0
    \/ Contains(text, <<"@">>)

\* The call gathered both fields, so that the collector writes its ticket.
BothCollected ==
    /\ Returned
    /\ EscalationApplies(call)
    /\ Truthy(Get(decision.contact_info, "phone", None))
    /\ Truthy(Get(decision.contact_info, "access", None))

\* C11, as the claim states it: when the oracle's call raises, or its answer
\* is no JSON object (text json.loads rejects, or a JSON value of another
\* kind), the decision is the safe default: a QUESTION whose missing_info
\* lists all seven slots, the error carried in the field "error".
C11_SafeDefaultOnOracleFailure ==
    (/\ Returned
     /\ OracleConsulted(oracle_calls)
     /\ oracle.triage.kind \in {"raises", "garbage", "value"})
    => /\ decision.action = "QUESTION"
       /\ decision.missing_info = ALL_SLOTS_MISSING
       /\ "error" \in DOMAIN decision

\* C12 - the claim under check: a decision of the slot-filling path with
\* action CONFIRM or CREATE_TICKET carries ticket_data whose seven slot fields
\* equal those of its filled_slots (null where filled_slots has none) and
\* whose category and risk equal the decision's; a QUESTION or EMERGENCY
\* decision carries no ticket_data.
C12_TicketDataMirrorsSlots ==
    (Returned /\ OracleConsulted(oracle_calls))
    => /\ decision.action \in {"CONFIRM", "CREATE_TICKET"} =>
             /\ "ticket_data" \in DOMAIN decision
             /\ \A k \in DOMAIN SLOTS :
                    decision.ticket_data[SLOTS[k]]
                        = Get(decision.filled_slots, SLOTS[k], None)
             /\ decision.ticket_data.category = decision.category
             /\ decision.ticket_data.risk = decision.risk
       /\ decision.action \in {"QUESTION", "EMERGENCY"} =>
             "ticket_data" \notin DOMAIN decision

\* C12 - reached: a CONFIRM decision of risk Red with every slot filled, whose
\* ticket_data holds the contact and the risk.
C12_Witness ==
    /\ Returned
    /\ OracleConsulted(oracle_calls)
    /\ decision.action = "CONFIRM"
    /\ decision.risk = "Red"
    /\ decision.filled_slots = ALL_FILLED
    /\ decision.ticket_data.contact = PHONE_ON_FILE
    /\ decision.ticket_data.risk = "Red"

\* C13, as the claim states it: the contact of filled_slots and of
\* ticket_data is null unless it has the shape of a phone number or of an
\* email address, so that no CONFIRM or CREATE_TICKET rests on "call me".
C13_ContactIsPhoneOrEmail ==
    (Returned /\ OracleConsulted(oracle_calls))
    => /\ Get(decision.filled_slots, "contact", None) # None
             => ContactShaped(decision.filled_slots.contact)
       /\ ("ticket_data" \in DOMAIN decision /\ decision.ticket_data.contact # None)
             => ContactShaped(decision.ticket_data.contact)

\* C14, as amended: when the oracle answered the vendor summary prompt with
\* text (a JSON object or not), the summary of the collector's CREATE_TICKET
\* ends with "Access: <collected access>. Contact: <collected phone>", whether
\* the oracle's summary field was empty or not.
C14_SummaryEndsWithCollected ==
    (BothCollected /\ oracle.vendor.kind \in {"object", "garbage"})
    => /\ decision.action = "CREATE_TICKET"
       /\ EndsWith(decision.ticket_summary,
              TEXT_ACCESS \o decision.contact_info.access \o TEXT_DOT_SPACE
              \o TEXT_CONTACT \o decision.contact_info.phone)

\* C14 - reached: the oracle wrote a summary of its own, and the ticket's
\* summary starts with it and ends with the access and the phone on file.
C14_Witness ==
    /\ BothCollected
    /\ oracle.vendor.kind = "object"
    /\ Get(oracle.vendor.obj, "summary", <<>>) = VENDOR_SUMMARY
    /\ call.collected_info = [phone |-> PHONE_ON_FILE, access |-> ACCESS_ON_FILE]
    /\ StartsWith(decision.ticket_summary, VENDOR_SUMMARY)
    /\ EndsWith(decision.ticket_summary,
           TEXT_ACCESS \o ACCESS_ON_FILE \o TEXT_DOT_SPACE \o TEXT_CONTACT \o PHONE_ON_FILE)

\* C14, as the claim states it: every vendor summary of a collector's
\* CREATE_TICKET holds "Access: <collected access>" and "Contact: <collected
\* phone>", whatever the oracle did.
C14_EverySummaryHoldsCollected ==
    BothCollected
    => /\ Contains(decision.ticket_summary, TEXT_ACCESS \o decision.contact_info.access)
       /\ Contains(decision.ticket_summary, TEXT_CONTACT \o decision.contact_info.phone)

\* C15, as the claim states it: when the oracle's call for the vendor summary
\* raises or its answer is unusable (no JSON object), the decision is still
\* CREATE_TICKET, its summary the fixed generic text and its category Other.
C15_FixedSummaryOnOracleFailure ==
    (BothCollected /\ oracle.vendor.kind \in {"raises", "garbage", "value"})
    => /\ decision.action = "CREATE_TICKET"
       /\ decision.ticket_summary = TEXT_VENDOR_FALLBACK
       /\ decision.category = "Other"

\* The agent ran an audit: audit_video was called and has returned.
AuditRan == audit # NoneDict /\ audit.pass # NoneDict

\* The state in which the video of the last audit settled, or "raises".
SettledAs == audit.oracle.states[Settles(audit.oracle.states)]

\* C16, as the claim states it: a video that was uploaded during an audit is
\* deleted before the audit returns, on every way out: success, an exception
\* of generation or aggregation, the state FAILED, an exception of polling.
C16_UploadedVideoDeleted ==
    (AuditRan /\ audit.pass.uploaded) => audit.pass.delete_calls = 1

\* C17 - the claim under check: a video whose state becomes FAILED ends the
\* audit: polling stops at that answer, generate_content is not called, and
\* the result is an error result, success false with no items.
C17_FailedIsTerminal ==
    (AuditRan /\ audit.pass.uploaded /\ SettledAs = "FAILED")
    => /\ audit.pass.polls = Settles(audit.oracle.states) - 1
       /\ audit.pass.generate_calls = <<>>
       /\ audit.pass.result.success = FALSE
       /\ audit.pass.result.items = <<>>
       /\ "error" \in DOMAIN audit.pass.result

\* C17 - reached: the video is PROCESSING, then FAILED (a further get_file
\* would say ACTIVE): one get_file call, no generate_content, an error result.
C17_Witness ==
    /\ AuditRan
    /\ audit.oracle.states = <<"PROCESSING", "FAILED", "ACTIVE">>
    /\ audit.pass.polls = 1
    /\ audit.pass.generate_calls = <<>>
    /\ audit.pass.result = AuditError("Video processing failed")

\* C18, as the claim states it: a move-out audit without a non-empty
\* baseline, by /audit/move-out for a unit without a stored baseline or by
\* audit_video(mode="move-out") with baseline_text and baseline_json both
\* empty, ends in an error, with no upload and no oracle call.
C18_NoMoveOutWithoutBaseline ==
    /\ (/\ audit # NoneDict
        /\ audit.op = "/audit/move-out"
        /\ ~Truthy(BaselineDescription(baselines, audit.unit_id)))
       => /\ audit.pass = NoneDict
          /\ audit.response.status_code \in {400, 404}
    /\ (/\ AuditRan
        /\ audit.op = "audit_video"
        /\ audit.unit_id.mode = "move-out"
        /\ ~Truthy(audit.unit_id.baseline_text)
        /\ Len(audit.unit_id.baseline_json) = 0)
       => /\ ~audit.pass.uploaded
          /\ audit.pass.generate_calls = <<>>
          /\ audit.pass.result.success = FALSE

\* C19, as the claim states it: the baseline that a move-out audit of
\* /audit/move-out hands to the oracle is the list of items of the unit's
\* latest move-in audit that succeeded, whole and in order.
C19_BaselineIsItemList ==
    (/\ AuditRan
     /\ audit.op = "/audit/move-out"
     /\ audit.pass.generate_calls # <<>>)
    => /\ audit.pass.generate_calls[1].kind = "json"
       /\ audit.pass.generate_calls[1].baseline = moved_in[audit.unit_id].passed.items

-----------------------------------------------------------------------------
(* The move-out aggregation, the sanitizers and the frame of a call        *)

\* The last audit was a move-out pass whose video went up and whose prompt
\* the oracle answered with a list of items.
MoveOutListed ==
    /\ AuditRan
    /\ audit.pass.generate_calls # <<>>
    /\ audit.pass.generate_calls[1].prompt = "move-out"
    /\ audit.oracle.generate.kind = "array"

\* The items of that list which the oracle flagged is_new, in its order.
Flagged == SelectSeq(audit.oracle.generate.items,
                     LAMBDA i : "is_new" \in DOMAIN i /\ i.is_new = TRUE)

\* The sum of estimated_cost over a list of items, a missing cost being 0.
SumOfCosts(items) ==
    LET cost(i) == IF "estimated_cost" \in DOMAIN i THEN i.estimated_cost ELSE 0
        sum[k \in 0..Len(items)] == IF k = 0 THEN 0 ELSE sum[k - 1] + cost(items[k])
    IN  sum[Len(items)]

Sanitized(op) == sanitized # NoneDict /\ sanitized.op = op

\* The text handed to the sanitizer is the JSON array of `body` wrapped in w.
WrapsArray(body, w) ==
    /\ sanitized.text = w[1] \o body \o w[2]
    /\ json_loads(body).ok
    /\ json_loads(body).v.type = "array"

\* C22, as the claim states it: _parse_json_array raises for no text and
\* returns a list; a JSON array wrapped in a code fence or in prose comes
\* back as that array, and a text that holds no array that parses gives [].
C22_ArraySanitizerNeverRaises ==
    Sanitized("_parse_json_array")
    => /\ sanitized.raised = "None"
       /\ sanitized.value.type = "array"
       /\ \A body \in JSON_BODIES, w \in WRAPPINGS :
             WrapsArray(body, w) => sanitized.value = json_loads(body).v
       /\ (\A i, j \in DOMAIN sanitized.text :
               ~(/\ json_loads(SubSeq(sanitized.text, i, j)).ok
                 /\ json_loads(SubSeq(sanitized.text, i, j)).v.type = "array"))
          => sanitized.value.v = <<>>

\* C23, as the claim states it: _parse_json_response raises for no text;
\* without its fences, text that parses as JSON gives the parsed value and
\* text that does not gives {text: <the text>}; what it returns is an object.
C23_ObjectSanitizerReturnsObject ==
    Sanitized("_parse_json_response")
    => /\ sanitized.raised = "None"
       /\ sanitized.value.type = "object"
       /\ IF json_loads(StripFences(sanitized.text)).ok
          THEN sanitized.value = json_loads(StripFences(sanitized.text)).v
          ELSE sanitized.value.v =
                   (<<"t","e","x","t">> :>
                       [type |-> "string", v |-> StripFences(sanitized.text)])

\* C24 - the claim under check: triage and triage_with_image_bytes leave the
\* history list they are given as it was, the list and each of its turns, on
\* every path; the reply is in the decision only.
C24_HistoryNotMutated ==
    Returned => call.history_after = call.history

\* C24 - reached: triage was given one user turn, answered with a text, and
\* the list still holds that one turn.
C24_Witness ==
    /\ Returned
    /\ call.op = "triage"
    /\ Len(call.history) = 1
    /\ Truthy(decision.text)
    /\ call.history_after = call.history

\* C25, as the claim states it: triage_with_image_bytes in escalation mode
\* leaves the caller's collected_info as it was given; what was merged is in
\* the contact_info of the decision only.
C25_CollectedInfoNotMutated ==
    (/\ Returned
     /\ call.op = "triage_with_image_bytes"
     /\ call.escalation_mode)
    => collected_info = call.collected_info

\* The last request was served by the endpoint named.
Served(endpoint) ==
    /\ request # NoneDict
    /\ request.endpoint = endpoint
    /\ endpoint = "/chat" \/ (audit # NoneDict /\ audit.op = endpoint)

\* What the endpoint named answered last.
Answer(endpoint) == IF endpoint = "/chat" THEN response ELSE audit.response

\* C26, as the claim states it: without GEMINI_API_KEY the service serves no
\* request, and no chat or audit request fails because the key is missing.
C26_MissingKeyIsFatalAtStartup ==
    ~api_key
    => \A endpoint \in {"/chat", "/audit/move-in", "/audit/move-out"} :
          /\ ~Served(endpoint)
          /\ Served(endpoint) /\ "detail" \in DOMAIN Answer(endpoint)
             => Answer(endpoint).detail # "GEMINI_API_KEY not configured"

\* C27, as the claim states it: when handling a chat or audit request fails
\* inside (the oracle raises, the upload fails, the agent cannot be built),
\* the answer is a generic message: no exception text, no error code.
C27_GenericMessageOnFailure ==
    \A endpoint \in {"/chat", "/audit/move-in", "/audit/move-out"} :
        Served(endpoint)
        => /\ "status_code" \in DOMAIN Answer(endpoint)
              => Answer(endpoint).status_code \in {200, 400, 404}
           /\ "error" \notin DOMAIN Answer(endpoint)

\* C28 - the claim under check: a chat request whose image has a content
\* type that is not allowed, an audit request whose video has one, and an
\* audit_video call with a mode other than move-in and move-out end in an
\* error, with no video uploaded and no oracle call made.
C28_RejectedBeforeOracle ==
    /\ (Served("/chat") /\ request.content_type \notin ALLOWED_TYPES \cup {"None"})
       => /\ response = HTTPException(400, "Invalid image type")
          /\ call = NoneDict
          /\ oracle_calls = <<>>
    /\ \A endpoint \in {"/audit/move-in", "/audit/move-out"} :
          (Served(endpoint) /\ request.content_type \notin ALLOWED_VIDEO_TYPES)
          => /\ audit.response = HTTPException(400, "Invalid video type")
             /\ audit.pass = NoneDict
    /\ (/\ AuditRan
        /\ audit.op = "audit_video"
        /\ audit.unit_id.mode \notin {"move-in", "move-out"})
       => /\ audit.pass.result = [success |-> FALSE, error |-> "Invalid mode"]
          /\ ~audit.pass.uploaded
          /\ audit.pass.polls = 0
          /\ audit.pass.generate_calls = <<>>
    /\ (audit # NoneDict /\ audit.pass = NoneDict) => audit.oracle = NoneDict

\* C28 - reached: an audit request with an image for a video was answered
\* 400, then audit_video was called with the mode "inspect" and returned an
\* error; no video is in the oracle's storage.
C28_Witness ==
    /\ AuditRan
    /\ audit.op = "audit_video"
    /\ audit.unit_id.mode = "inspect"
    /\ audit.pass.result = [success |-> FALSE, error |-> "Invalid mode"]
    /\ request # NoneDict
    /\ request.content_type = "image/png"
    /\ audits = 2
    /\ files = {}

\* C29, as the claim states it: the filled_slots of every decision triage
\* returns holds the seven slot keys, when the oracle answered and on the
\* error path.
C29_FilledSlotsHoldSevenKeys ==
    (Returned /\ call.op = "triage")
    => DOMAIN decision.filled_slots = Range(SLOTS)

\* C30, as the claim states it: every decision triage_with_image_bytes
\* returns (escalation follow-up, escalation CREATE_TICKET, slot filling,
\* error default) holds the keys text, risk, action, category,
\* escalation_mode and request_photo.
C30_DecisionHoldsSixKeys ==
    (Returned /\ call.op = "triage_with_image_bytes")
    => {"text", "risk", "action", "category", "escalation_mode", "request_photo"}
           \subseteq DOMAIN decision

-----------------------------------------------------------------------------
(* The chat answer, the move-in report and the stored baseline             *)

\* C32, as the claim states it: needs_more_info of the /chat answer is true
\* whenever the decision's action is QUESTION and false when it is
\* CREATE_TICKET.
C32_NeedsMoreInfoTracksQuestion ==
    (Served("/chat") /\ response.status_code = 200)
    => /\ response.action = "QUESTION" => response.needs_more_info
       /\ response.action = "CREATE_TICKET" => ~response.needs_more_info

\* The turns a /chat answer holds after the turns submitted with the request.
ChatAppended ==
    SubSeq(response.conversation_history, Len(request.conversation_history) + 1,
           Len(response.conversation_history))

\* The turns of the request itself: the message when it is not empty, then the
\* image note when noted is true.
RequestTurns(noted) ==
    (IF request.message # <<>> THEN <<UserTurn(request.message)>> ELSE <<>>)
    \o (IF noted THEN <<UserTurn(TEXT_IMAGE_NOTE)>> ELSE <<>>)

\* The history a /chat answer returns starts with the history submitted,
\* turn for turn.
KeepsSubmittedTurns ==
    /\ Len(response.conversation_history) >= Len(request.conversation_history)
    /\ SubSeq(response.conversation_history, 1, Len(request.conversation_history))
           = request.conversation_history

\* C34, amended: the history a /chat answer returns is the history submitted,
\* unchanged, then the message when it is not empty, then the image note
\* (only when an image came with the request), then the assistant's reply when
\* the decision's text is not empty; when the text is null or empty no
\* assistant turn is added and the request's own turns come last.
C34_HistoryIsAppendOnly ==
    (Served("/chat") /\ response.status_code = 200)
    => /\ KeepsSubmittedTurns
       /\ \E noted \in BOOLEAN :
             /\ noted => request.content_type # "None"
             /\ ChatAppended =
                    RequestTurns(noted)
                    \o (IF Truthy(response.response)
                        THEN <<AssistantTurn(response.response)>> ELSE <<>>)

\* C34, a state where the case happens: a second request of a session, with a
\* message and an image, answered with the earlier turns, the message, the
\* image note and the reply.
C34_Witness ==
    /\ Served("/chat") /\ response.status_code = 200
    /\ request.conversation_history # <<>>
    /\ request.message # <<>>
    /\ Truthy(response.response)
    /\ ChatAppended = RequestTurns(TRUE) \o <<AssistantTurn(response.response)>>

\* C34, as the claim states it: the history returned is the history
\* submitted, then the message, then the image note when added, then the
\* assistant's reply as the last element.
C34_ReplyIsLastElement ==
    (Served("/chat") /\ response.status_code = 200)
    => /\ KeepsSubmittedTurns
       /\ \E noted \in BOOLEAN :
             ChatAppended = RequestTurns(noted) \o <<AssistantTurn(response.response)>>

\* A move-in pass asked the oracle for the items and was given a list.
MoveInListed ==
    /\ AuditRan
    /\ audit.pass.generate_calls # <<>>
    /\ audit.pass.generate_calls[1].prompt = "move-in"
    /\ audit.oracle.generate.kind = "array"

\* The items of that list whose condition holds, in whatever case, one of the
\* seven words, in the order of the list.
PreExisting ==
    SelectSeq(audit.oracle.generate.items,
              LAMBDA i : /\ "condition" \in DOMAIN i
                         /\ \E w \in DOMAIN ISSUE_WORDS :
                               Contains(Lower(i.condition), ISSUE_WORDS[w]))

\* The distinct non-empty room values of that list.
DistinctRooms ==
    {audit.oracle.generate.items[k].room :
        k \in {j \in DOMAIN audit.oracle.generate.items :
                  /\ "room" \in DOMAIN audit.oracle.generate.items[j]
                  /\ audit.oracle.generate.items[j].room # <<>>}}

-----------------------------------------------------------------------------
(* The phone the escalation flow collects                                  *)

\* The text has the shape of a phone number: three digits, three digits and
\* four digits with at most one of - . or white space between the groups, the
\* first three digits in parentheses or not.
PhoneShaped(t) ==
    LET digits(u) == \A k \in DOMAIN u : u[k] \in DIGITS
        seps == {"-", "."} \cup WHITESPACE
        \* three digits, an optional separator, four digits
        tail(u) == \/ Len(u) = 7 /\ digits(u)
                   \/ /\ Len(u) = 8 /\ digits(SubSeq(u, 1, 3)) /\ u[4] \in seps
                      /\ digits(SubSeq(u, 5, 8))
    IN  \/ /\ Len(t) >= 10 /\ digits(SubSeq(t, 1, 3))
           /\ \/ tail(SubSeq(t, 4, Len(t)))
              \/ t[4] \in seps /\ tail(SubSeq(t, 5, Len(t)))
        \/ /\ Len(t) >= 12 /\ t[1] = "(" /\ digits(SubSeq(t, 2, 4)) /\ t[5] = ")"
           /\ \/ tail(SubSeq(t, 6, Len(t)))
              \/ t[6] \in WHITESPACE /\ tail(SubSeq(t, 7, Len(t)))

\* The user turns of the call's history, joined by one space each.
UserText ==
    LET users == SelectSeq(call.history, LAMBDA m : m.role = "user")
        joined[k \in 0..Len(users)] ==
            IF k = 0 THEN <<>>
            ELSE IF k = 1 THEN users[1].content
            ELSE joined[k - 1] \o <<" ">> \o users[k].content
    IN  joined[Len(users)]

\* Where the phone-shaped parts of the text are: <<first, last>> positions.
PhoneSpans(t) ==
    {<<i, j>> \in (1..Len(t)) \X (1..Len(t)) :
        j - i \in 9..13 /\ PhoneShaped(SubSeq(t, i, j))}

\* The first of them: the one that starts leftmost.
FirstPhone(t) ==
    LET first == CHOOSE s \in PhoneSpans(t) : \A r \in PhoneSpans(t) : s[1] <= r[1]
    IN  SubSeq(t, first[1], first[2])

\* C36: a call the escalation flow answers, whose user turns hold something
\* of the shape of a phone number, returns as the collected phone the first
\* such part of the joined user turns, whatever phone collected_info held
\* before and whatever number a later turn gives; a non-empty collected_info
\* handed to the call holds that phone afterwards.
C36_FirstPhoneWins ==
    (Returned /\ EscalationApplies(call) /\ PhoneSpans(UserText) # {})
    => /\ FromEscalation(decision)
       /\ decision.contact_info.phone = FirstPhone(UserText)
       /\ call.collected_info \notin {NoneDict, EmptyDict}
             => collected_info.phone = FirstPhone(UserText)

\* C36 - reached: the user gave 555-987-6543 and then corrected it to
\* (555) 222-3333 while 555-123-4567 was on file; the call collects
\* 555-987-6543.
C36_Witness ==
    /\ Returned /\ EscalationApplies(call)
    /\ call.history = <<UserTurn(SAY_PHONE), UserTurn(SAY_OTHER_PHONE)>>
    /\ Get(call.collected_info, "phone", None) = PHONE_ON_FILE
    /\ decision.contact_info.phone = SAY_PHONE

-----------------------------------------------------------------------------
(* The stored baseline                                                     *)

\* The request just served was a move-in audit whose pass ran.
MoveInPassed == AuditRan /\ audit.op = "/audit/move-in"

\* C37: the stored baselines change only in a step that serves a move-in
\* audit whose pass returned success with a non-empty summary and whose save
\* was committed; a move-in pass that ends in an error result leaves them as
\* they were and answers with the error result alone.
C37_ErrorLeavesBaseline ==
    [][/\ baselines' # baselines
          => /\ audit'.op = "/audit/move-in"
             /\ audit'.pass # NoneDict
             /\ audit'.pass.result.success
             /\ audit'.pass.result.summary \notin {None, <<>>}
             /\ audit'.response.saved_to_database = TRUE
       /\ (/\ audits' # audits
           /\ audit'.op = "/audit/move-in"
           /\ audit'.pass # NoneDict
           /\ ~audit'.pass.result.success)
          => /\ baselines' = baselines
             /\ audit'.response = audit'.pass.result
             /\ "saved_to_database" \notin DOMAIN audit'.response]_vars

\* C37 - reached: a move-in pass of a unit that has a stored baseline ended
\* in an error result, and the baseline is still there.
C37_Witness ==
    /\ MoveInPassed
    /\ ~audit.pass.result.success
    /\ audits = 2
    /\ \E r \in baselines : r.unit_id = audit.unit_id

\* "Documented 0 items. No significant pre-existing issues noted."
ZERO_ITEMS_SUMMARY ==
    <<"D","o","c","u","m","e","n","t","e","d"," ","0"," ","i","t","e","m","s","."," ",
      "N","o"," ","s","i","g","n","i","f","i","c","a","n","t"," ","p","r","e","-","e","x",
      "i","s","t","i","n","g"," ","i","s","s","u","e","s"," ","n","o","t","e","d",".">>

\* The move-in pass just served was answered by the oracle with a text that
\* holds no array.
MoveInUnparsed ==
    /\ MoveInPassed
    /\ audit.pass.generate_calls # <<>>
    /\ audit.oracle.generate.kind = "garbage"

\* The move-out request just served had a video of an allowed type and found
\* the zero-item summary stored for its unit.
MoveOutOnZeroItems ==
    /\ Served("/audit/move-out")
    /\ request.content_type \in ALLOWED_VIDEO_TYPES
    /\ BaselineDescription(baselines, audit.unit_id) = ZERO_ITEMS_SUMMARY

-----------------------------------------------------------------------------
(* Requests served concurrently                                            *)

\* Request r has been answered.
Done(r) == r \in DOMAIN requests /\ requests[r].pc = "done"

\* Request r has been answered with what its agent call returned.
Answered(r) == Done(r) /\ requests[r].result # NoneDict

\* What the agent call of request q returns when it is the only call made,
\* on q's inputs and the answers the oracle gave q.
AloneResult(q) ==
    IF q.endpoint = "/chat"
    THEN triage_with_image_bytes(q.history, "None", FALSE, NoneDict,
                                 Oracle(q.answer, OracleRaises)).decision
    ELSE audit_video("move-in", None, <<>>,
                     [states |-> IF q.polled THEN <<"PROCESSING", q.video>> ELSE <<q.video>>,
                      generate |-> IF q.answer = NoneDict THEN OracleRaises ELSE q.answer,
                      delete |-> "ok"],
                     CHOOSE p \in Orders(RoomsOf(IF q.answer = NoneDict THEN <<>>
                                                 ELSE _parse_json_array(q.answer))) : TRUE
                    ).result

C33_PollsWhileProcessingThenReturns ==
    /\ [][\A r \in DOMAIN requests :
             /\ (requests'[r].polled /\ ~requests[r].polled)
                => requests[r].video = "PROCESSING"
             /\ requests[r].video \notin {"None", "PROCESSING"}
                => /\ requests'[r].video = requests[r].video
                   /\ requests'[r].polled = requests[r].polled]_vars
    /\ \A r \in 1..MaxRequests :
          (Len(requests) >= r /\ requests[r].endpoint = "/audit/move-in") ~> Done(r)

\* C33 - reached: a move-in audit whose video was reported PROCESSING, then
\* ACTIVE, returned a report.
C33_Witness ==
    \E r \in DOMAIN requests :
        /\ Done(r)
        /\ requests[r].endpoint = "/audit/move-in"
        /\ requests[r].polled
        /\ requests[r].video = "ACTIVE"
        /\ requests[r].result.success

\* The rows stored for a unit.
RowsOf(u) == {row \in baselines : row.unit_id = u}

\* C39: in every interleaving of move-in requests, each unit has at most one
\* stored baseline, and a request whose pass succeeded is answered with the
\* report and saved_to_database: false, with the database's error, only for a
\* request that found no row and whose insert met the row of another.
C39_OneBaselinePerUnit ==
    /\ \A u \in UnitIds : Cardinality(RowsOf(u)) <= 1
    /\ \A r \in DOMAIN requests :
          (Done(r) /\ requests[r].endpoint = "/audit/move-in"
                   /\ requests[r].result # NoneDict /\ requests[r].result.success)
          => /\ "status_code" \notin DOMAIN requests[r].response
             /\ requests[r].response.success
             /\ "saved_to_database" \in DOMAIN requests[r].response
             /\ Cardinality(RowsOf(requests[r].unit_id)) = 1
             /\ ~requests[r].response.saved_to_database
                => /\ ~requests[r].existing
                   /\ "database_error" \in DOMAIN requests[r].response
                   /\ \E q \in DOMAIN requests :
                         /\ q # r /\ Done(q)
                         /\ requests[q].unit_id = requests[r].unit_id
                         /\ requests[q].worker # requests[r].worker
                         /\ requests[q].response.saved_to_database

\* C39 - reached: two move-in requests for one unit both found no row; the
\* insert of one was committed and the other was answered with
\* saved_to_database false, and the unit has one row.
C39_Witness ==
    \E r, q \in DOMAIN requests :
        /\ r # q /\ Done(r) /\ Done(q)
        /\ requests[r].unit_id = requests[q].unit_id
        /\ requests[r].endpoint = "/audit/move-in"
        /\ requests[q].endpoint = "/audit/move-in"
        /\ requests[r].result # NoneDict /\ requests[r].result.success
        /\ requests[q].result # NoneDict /\ requests[q].result.success
        /\ requests[r].response.saved_to_database
        /\ ~requests[q].response.saved_to_database
        /\ Cardinality(RowsOf(requests[r].unit_id)) = 1

=============================================================================
